---- MODULE Spec2Model ----
(***************************************************************************)
(* Five-step cycle of boonespacedog/complexity-vector-1                    *)
(* (code/five_step_cycle.py, code/robustness_sweep.py).                    *)
(*                                                                         *)
(* A SystemState is a record [C, Q, morphisms_applied, points]:            *)
(*   C       classical bits, a function 0..7 -> {0,1} (C[i] is C[i])       *)
(*   Q       density matrix, written U (M/den) U^dagger:                   *)
(*             M    8x8 integer matrix of numerators, rows/columns 0..7    *)
(*             den  common denominator                                     *)
(*             U    product of Floquet factors expm(-i k H tau), kept as a *)
(*                  word of letters [H, k]; <<>> is the identity           *)
(*   morphisms_applied  set of labels                                      *)
(*   points  None, or the attached point cloud as a radial histogram:      *)
(*           a function radius (in 1/1000) -> number of points             *)
(*                                                                         *)
(* Real numbers of the pillar functions are enclosed in intervals with     *)
(* end points in 1/SCALE; the additive 1e-12 guards of the code are kept   *)
(* as a separate first-order part in units of 1e-12/ESCALE.                *)
(***************************************************************************)
EXTENDS Integers, Sequences, FiniteSets, TLC

\* ---------------------------------------------------------------- CONFIG
N_BITS == 8
N_QUBITS == 3
DIM_HILBERT == 8
A_PARAM == 680                       \* 0.68, radii are in 1/1000
PRG_SEED_INIT == [i \in 0..3 |-> IF i \in {1, 2} THEN 1 ELSE 0]
N_KICKS == 5
RANDOM_SEED == 42
N_POINTS_GEOM == 10000               \* morphism_4_disk_to_annulus(n_points)
N_POINTS_PILLAR == 1000              \* compute_C_geom: bits_to_points(C, 1000)

\* ---------------------------------------------------------------- bounds
MaxDraws == 2         \* draws from the global generator since its last seeding
MaxWord == 10         \* letters of the Floquet word U
MaxCalls == 5         \* calls the program makes
MaxRuns == 2          \* runs of run_cycle_with_seed per seed
MinLen == 5           \* shortest classical component handed to a morphism
MaxPoints == 3        \* points of a cloud handed to central_void_score

None == <<>>         \* no point cloud attached; no run recorded
Idx == 0..(DIM_HILBERT - 1)
BitIdx == 0..(N_BITS - 1)
Labels == {"f_alg", "f_info", "f_dyn", "f_geom"}

\* ------------------------------------------------------- integer helpers
Abs(x) == IF x < 0 THEN -x ELSE x
Min(a, b) == IF a < b THEN a ELSE b
Max(a, b) == IF a > b THEN a ELSE b
Sgn(x) == IF x > 0 THEN 1 ELSE IF x < 0 THEN -1 ELSE 0

FloorDiv(a, b) == IF a >= 0 THEN a \div b ELSE -(((-a) + b - 1) \div b)
CeilDiv(a, b) == -FloorDiv(-a, b)

Pow(b, e) == b ^ e

RECURSIVE GCD(_, _)
GCD(a, b) == IF b = 0 THEN Abs(a) ELSE GCD(b, a % b)

\* sum of f[0] .. f[n-1]
RECURSIVE SumFn(_, _)
SumFn(f, n) ==
    IF n = 0 THEN 0
    ELSE IF n = 8 THEN f[0] + f[1] + f[2] + f[3] + f[4] + f[5] + f[6] + f[7]
    ELSE f[n - 1] + SumFn(f, n - 1)

RECURSIVE SumSet(_, _)
SumSet(f, S) ==
    IF S = {} THEN 0
    ELSE LET x == CHOOSE y \in S : TRUE IN f[x] + SumSet(f, S \ {x})

RECURSIVE SumSeq(_)
SumSeq(s) == IF s = <<>> THEN 0 ELSE Head(s) + SumSeq(Tail(s))

\* floor of the square root, by bisection on lo <= sqrt(n) < hi
RECURSIVE SqrtBisect(_, _, _)
SqrtBisect(n, lo, hi) ==
    IF hi - lo <= 1 THEN lo
    ELSE LET mid == (lo + hi) \div 2
         IN IF mid * mid <= n THEN SqrtBisect(n, mid, hi)
                              ELSE SqrtBisect(n, lo, mid)
SqrtFloor(n) == SqrtBisect(n, 0, 46341)
SqrtCeil(n) == LET s == SqrtFloor(n) IN IF s * s = n THEN s ELSE s + 1

\* ----------------------------------------------------- 8-bit arithmetic
BitOf(x, k) == (x \div Pow(2, k)) % 2
Xor8(a, b) == SumFn([k \in 0..7 |-> Pow(2, k) * ((BitOf(a, k) + BitOf(b, k)) % 2)], 8)

\* bit_int |= int(b) << i : bit i of the integer is bits[i]
BitsToIntLSB(bits) == SumFn([i \in BitIdx |-> bits[i] * Pow(2, i)], N_BITS)
IntToBitsLSB(x) == [i \in BitIdx |-> BitOf(x, i)]
\* int(''.join(map(str, bits)), 2) : bits[0] is the most significant digit
BitsToIntMSB(bits) == SumFn([i \in BitIdx |-> bits[i] * Pow(2, N_BITS - 1 - i)], N_BITS)

ZeroBits == [i \in BitIdx |-> 0]

\* ------------------------------------------- classical bit primitives
\* One LFSR step: new_bit = state[3] ^ state[2]; roll left; state[-1] = new_bit
LfsrStep(state) ==
    [i \in 0..3 |-> IF i = 3 THEN (state[3] + state[2]) % 2 ELSE state[i + 1]]

RECURSIVE LfsrRun(_, _)
LfsrRun(state, n) == IF n = 0 THEN state ELSE LfsrRun(LfsrStep(state), n - 1)

\* The argument array is copied (state = seed.copy()), so the caller's seed
\* is left as it was: seed_after is the array the caller holds on return.
prg_expand_inplace(seed, target_length) ==
    [output |-> [i \in 0..(target_length - 1) |-> LfsrRun(seed, i)[0]],
     seed_after |-> LfsrRun(seed, target_length)]

prg_expand(seed, target_length) ==
    [output |-> [i \in 0..(target_length - 1) |-> LfsrRun(seed, i)[0]],
     seed_after |-> seed]

parity(bits, i) == (bits[i] + bits[i + 1]) % 2

\* one round of the stretch / fold / mix loop
CatRound(bit_int, original, round) ==
    LET stretched == (bit_int * 137) % 256
        rotated == ((stretched * 16) % 256) + (stretched \div 16)
        folded == Xor8(stretched, rotated)
    IN Xor8(folded, (original \div Pow(2, round)) % 256)

arnold_cat_map_bits(bits) ==
    LET original == BitsToIntLSB(bits)
        r0 == CatRound(original, original, 0)
        r1 == CatRound(r0, original, 1)
        r2 == CatRound(r1, original, 2)
    IN IntToBitsLSB(Xor8(r2, 170))

\* ------------------------------------------------ 8x8 integer matrices
Eye == [i \in Idx |-> [j \in Idx |-> IF i = j THEN 1 ELSE 0]]
MatMul(A, B) ==
    [i \in Idx |-> [j \in Idx |-> SumFn([k \in Idx |-> A[i][k] * B[k][j]], DIM_HILBERT)]]
MatAdd(A, B) == [i \in Idx |-> [j \in Idx |-> A[i][j] + B[i][j]]]
MatScale(c, A) == [i \in Idx |-> [j \in Idx |-> c * A[i][j]]]
MatVec(A, v) == [i \in Idx |-> SumFn([k \in Idx |-> A[i][k] * v[k]], DIM_HILBERT)]
Trace(A) == SumFn([i \in Idx |-> A[i][i]], DIM_HILBERT)
IsHermitian(A) == \A i \in Idx : \A j \in Idx : A[i][j] = A[j][i]

\* gcd of |f[lo]|, ..., |f[hi]|, by halves
RECURSIVE GcdFn(_, _, _)
GcdFn(f, lo, hi) ==
    IF lo = hi THEN Abs(f[lo])
    ELSE GCD(GcdFn(f, lo, (lo + hi) \div 2), GcdFn(f, (lo + hi) \div 2 + 1, hi))
\* gcd of den and of the entries of M
MatGcd(M, den) ==
    GCD(Abs(den),
        GcdFn([k \in 0..(DIM_HILBERT * DIM_HILBERT - 1) |->
                  M[k \div DIM_HILBERT][k % DIM_HILBERT]],
              0, DIM_HILBERT * DIM_HILBERT - 1))

\* the rational matrix M/den in lowest terms, under the word U
Rho(U, M, den) ==
    LET g == MatGcd(M, den)
    IN [U |-> U, M |-> [i \in Idx |-> [j \in Idx |-> M[i][j] \div g]], den |-> den \div g]

\* (1 - s) A + s B for s = sn/sd, A and B under the same word
Mix(A, B, sn, sd) ==
    Rho(A.U,
        MatAdd(MatScale((sd - sn) * B.den, A.M), MatScale(sn * A.den, B.M)),
        sd * A.den * B.den)

\* ------------------------------------------------------ state vectors
\* [n, D] is the vector n / sqrt(D)
BasisVec(k) == [n |-> [i \in Idx |-> IF i = k THEN 1 ELSE 0], D |-> 1]
RECURSIVE VecNorm(_)
VecNorm(v) ==
    IF v.D % 4 = 0 /\ \A i \in Idx : v.n[i] % 2 = 0
    THEN VecNorm([n |-> [i \in Idx |-> v.n[i] \div 2], D |-> v.D \div 4])
    ELSE v
\* np.outer(psi, psi.conj())
Outer(U, psi) == Rho(U, [i \in Idx |-> [j \in Idx |-> psi.n[i] * psi.n[j]]], psi.D)

\* the Hadamard on qubit 0 as cnot_gate counts qubits: np.kron(np.eye(4), H)
H_on_qubit_0 ==
    [i \in Idx |-> [j \in Idx |->
        IF i \div 2 = j \div 2
        THEN (IF i % 2 = 1 /\ j % 2 = 1 THEN -1 ELSE 1)
        ELSE 0]]

\* np.kron(H, np.eye(4)) for H = [[1, 1], [1, -1]] / sqrt(2), times sqrt(2):
\* the 2x2 factor acts on the most significant bit of the index
H_full ==
    [i \in Idx |-> [j \in Idx |->
        IF i % 4 = j % 4
        THEN (IF i \div 4 = 1 /\ j \div 4 = 1 THEN -1 ELSE 1)
        ELSE 0]]
ApplyH(psi) == VecNorm([n |-> MatVec(H_full, psi.n), D |-> 2 * psi.D])

\* bits = [(i >> k) & 1 for k in range(n_qubits)]: qubit k is bit k of the index
FlipBit(i, k) == IF BitOf(i, k) = 1 THEN i - Pow(2, k) ELSE i + Pow(2, k)
SwapRows(U, i, j) ==
    [r \in Idx |-> IF r = i THEN U[j] ELSE IF r = j THEN U[i] ELSE U[r]]
RECURSIVE CnotLoop(_, _, _, _)
CnotLoop(U, control, target, i) ==
    IF i = DIM_HILBERT THEN U
    ELSE LET j == FlipBit(i, target)
         IN IF BitOf(i, control) = 1 /\ i < j
            THEN CnotLoop(SwapRows(U, i, j), control, target, i + 1)
            ELSE CnotLoop(U, control, target, i + 1)
cnot_gate(n_qubits, control, target) == CnotLoop(Eye, control, target, 0)

RECURSIVE GhzCnots(_, _, _)
GhzCnots(psi, target, n_qubits) ==
    IF target = n_qubits THEN psi
    ELSE GhzCnots([n |-> MatVec(cnot_gate(n_qubits, 0, target), psi.n), D |-> psi.D],
                  target + 1, n_qubits)

prepare_ghz_state(n_qubits) == Outer(<<>>, GhzCnots(ApplyH(BasisVec(0)), 1, n_qubits))

projector_single_qubit(n_qubits, qubit_index, outcome) ==
    [i \in Idx |-> [j \in Idx |->
        IF i = j /\ BitOf(i, qubit_index) = outcome THEN 1 ELSE 0]]

\* the gates and projectors of the register, built once
CNOT == [c \in 0..(N_QUBITS - 1) |-> [t \in 0..(N_QUBITS - 1) |->
            IF c = t THEN Eye ELSE cnot_gate(N_QUBITS, c, t)]]
PROJECTOR == [q \in 0..(N_QUBITS - 1) |-> [o \in 0..1 |->
                 projector_single_qubit(N_QUBITS, q, o)]]
GHZ_STATE == prepare_ghz_state(N_QUBITS)

\* ------------------------------------------------------- measurement
DEPOL_NUM == 1
DEPOL_DEN == 10
U_RES == 10000       \* a uniform draw u is kept to four decimals

\* the projective measurement alone, no depolarizing term
measure_qubit_projective(rho, qubit_index, n_qubits, u) ==
    LET P_0 == PROJECTOR[qubit_index][0]
        P_1 == PROJECTOR[qubit_index][1]
        rho_mixed_0 == MatMul(MatMul(P_0, rho.M), P_0)
        rho_mixed_1 == MatMul(MatMul(P_1, rho.M), P_1)
        p_0 == Trace(rho_mixed_0)
        total == Trace(rho_mixed_0) + Trace(rho_mixed_1)
    IN [outcome |-> IF u * total < U_RES * p_0 THEN 0 ELSE 1,
        rho_post |-> Rho(rho.U, MatAdd(rho_mixed_0, rho_mixed_1), rho.den)]

\* rho_post with the depolarizing term added at full weight
measure_qubit_nodamp(rho, qubit_index, n_qubits, u) ==
    LET P_0 == PROJECTOR[qubit_index][0]
        P_1 == PROJECTOR[qubit_index][1]
        rho_mixed_0 == MatMul(MatMul(P_0, rho.M), P_0)
        rho_mixed_1 == MatMul(MatMul(P_1, rho.M), P_1)
        p_0 == Trace(rho_mixed_0)
        total == Trace(rho_mixed_0) + Trace(rho_mixed_1)
        rho_post == [U |-> rho.U, M |-> MatAdd(rho_mixed_0, rho_mixed_1), den |-> rho.den]
        rho_depol == [U |-> rho.U, M |-> Eye, den |-> DIM_HILBERT]
    IN [outcome |-> IF u * total < U_RES * p_0 THEN 0 ELSE 1,
        rho_post |-> Rho(rho.U,
                         MatAdd(MatScale(DEPOL_DEN * rho_depol.den, rho_post.M),
                                MatScale(DEPOL_NUM * rho_post.den, rho_depol.M)),
                         DEPOL_DEN * rho_post.den * rho_depol.den)]

\* the state collapsed on the sampled outcome, P_o rho P_o / p_o, in place of
\* the sum over both outcomes
measure_qubit_collapse(rho, qubit_index, n_qubits, u) ==
    LET P_0 == PROJECTOR[qubit_index][0]
        P_1 == PROJECTOR[qubit_index][1]
        rho_mixed_0 == MatMul(MatMul(P_0, rho.M), P_0)
        rho_mixed_1 == MatMul(MatMul(P_1, rho.M), P_1)
        p_0 == Trace(rho_mixed_0)
        total == Trace(rho_mixed_0) + Trace(rho_mixed_1)
        outcome == IF u * total < U_RES * p_0 THEN 0 ELSE 1
        rho_post == IF outcome = 0
                    THEN [U |-> rho.U, M |-> rho_mixed_0, den |-> p_0]
                    ELSE [U |-> rho.U, M |-> rho_mixed_1, den |-> total - p_0]
        rho_depol == [U |-> rho.U, M |-> Eye, den |-> DIM_HILBERT]
    IN [outcome |-> outcome,
        rho_post |-> Mix(rho_post, rho_depol, DEPOL_NUM, DEPOL_DEN)]

\* np.random.choice([0, 1], p=[p_0, p_1]) returns 0 when the draw u is below
\* p_0 / total; the post-measurement state does not depend on the outcome
measure_qubit(rho, qubit_index, n_qubits, u) ==
    LET P_0 == PROJECTOR[qubit_index][0]
        P_1 == PROJECTOR[qubit_index][1]
        rho_mixed_0 == MatMul(MatMul(P_0, rho.M), P_0)
        rho_mixed_1 == MatMul(MatMul(P_1, rho.M), P_1)
        p_0 == Trace(rho_mixed_0)
        total == Trace(rho_mixed_0) + Trace(rho_mixed_1)
        rho_post == [U |-> rho.U, M |-> MatAdd(rho_mixed_0, rho_mixed_1), den |-> rho.den]
        rho_depol == [U |-> rho.U, M |-> Eye, den |-> DIM_HILBERT]
    IN [outcome |-> IF u * total < U_RES * p_0 THEN 0 ELSE 1,
        rho_post |-> Mix(rho_post, rho_depol, DEPOL_NUM, DEPOL_DEN)]

\* ------------------------------------------------------ eigh / eigvalsh
\* Every matrix the morphisms produce is real symmetric with at most one
\* off-diagonal entry per row and equal diagonal entries on the two rows
\* that entry couples (Supported); its eigenpairs are then
\*   a + |b| with e_l + sgn(b) e_h,  a - |b| with e_l - sgn(b) e_h,
\* and M[i][i] with e_i on an uncoupled row.
OffSet(M, i) == {j \in Idx \ {i} : M[i][j] # 0}
Supported(M) ==
    \A i \in Idx :
        /\ Cardinality(OffSet(M, i)) <= 1
        /\ \A j \in OffSet(M, i) : M[j][i] = M[i][j] /\ M[j][j] = M[i][i]
Partner(M, i) == IF OffSet(M, i) = {} THEN i ELSE CHOOSE j \in OffSet(M, i) : TRUE
EigPair(M, i) ==
    LET p == Partner(M, i)
        l == Min(i, p)
        h == Max(i, p)
        sg == IF i = h THEN 1 ELSE -1
    IN IF p = i
       THEN [val |-> M[i][i], vec |-> BasisVec(i)]
       ELSE [val |-> M[i][i] + sg * Abs(M[l][h]),
             vec |-> [n |-> [k \in Idx |-> IF k = l THEN 1
                                          ELSE IF k = h THEN sg * Sgn(M[l][h])
                                          ELSE 0],
                      D |-> 2]]
eigh(M) == [i \in Idx |-> EigPair(M, i)]
\* numerators (over rho.den) of the eigenvalues, ascending
eigvalsh(rho) ==
    LET e == eigh(rho.M)
    IN SortSeq([i \in 1..DIM_HILBERT |-> e[i - 1].val], LAMBDA a, b : a < b)
\* eigenvecs[:, np.argmax(eigenvals)]
Dominant(rho) ==
    LET e == eigh(rho.M)
        i == CHOOSE k \in Idx : \A j \in Idx : e[k].val >= e[j].val
    IN e[i].vec

\* -------------------------------------------------- kicked Ising words
\* Hamiltonians in units of J and of h
ZSign(b) == IF b = 0 THEN 1 ELSE -1
ising_hamiltonian(n_qubits) ==
    [i \in Idx |-> [j \in Idx |->
        IF i = j
        THEN SumFn([q \in 0..(n_qubits - 2) |->
                       ZSign(BitOf(i, q)) * ZSign(BitOf(i, q + 1))], n_qubits - 1)
        ELSE 0]]
kick_hamiltonian(n_qubits) ==
    [i \in Idx |-> [j \in Idx |->
        SumFn([q \in 0..(n_qubits - 1) |-> IF j = FlipBit(i, q) THEN 1 ELSE 0], n_qubits)]]
Hamiltonian(name) ==
    IF name = "ising" THEN ising_hamiltonian(N_QUBITS) ELSE kick_hamiltonian(N_QUBITS)

\* the letter [H, k] is expm(-1j * k * H * TAU); letters of the same
\* Hamiltonian commute, so adjacent ones add their exponents
Letter(name, k) == [H |-> name, k |-> k]
Front(w) == SubSeq(w, 1, Len(w) - 1)
RECURSIVE Compose(_, _)
Compose(w1, w2) ==
    IF w1 = <<>> THEN w2
    ELSE IF w2 = <<>> THEN w1
    ELSE LET a == w1[Len(w1)]
             b == Head(w2)
         IN IF a.H = b.H
            THEN IF a.k + b.k = 0
                 THEN Compose(Front(w1), Tail(w2))
                 ELSE Front(w1) \o <<Letter(a.H, a.k + b.k)>> \o Tail(w2)
            ELSE w1 \o w2
RECURSIVE matrix_power(_, _)
matrix_power(w, n) == IF n = 0 THEN <<>> ELSE Compose(w, matrix_power(w, n - 1))
IsUnitaryWord(w) == \A i \in 1..Len(w) : IsHermitian(Hamiltonian(w[i].H))

\* rho' = U_total rho U_total^dagger, U_floquet = U_ising @ U_kick
kicked_ising_evolution(rho, n_kicks) ==
    LET U_floquet == <<Letter("ising", 1), Letter("kick", 1)>>
        U_total == matrix_power(U_floquet, n_kicks)
    IN [U |-> Compose(U_total, rho.U), M |-> rho.M, den |-> rho.den]

\* ------------------------------------------------- interval arithmetic
\* A number is [lo, hi, elo, ehi]: it lies between lo/SCALE + elo*E and
\* hi/SCALE + ehi*E in the lexicographic order, E = 1e-12/ESCALE.
SCALE == 10000
ESCALE == 100
LOG2E_LO == 144       \* ESCALE * log2(e), rounded down and up
LOG2E_HI == 145
MANT == 16384         \* mantissas of the logarithm are in [MANT, 2 MANT]
LOG_BITS == 12
BIG == 200000         \* p * SCALE fits in 31 bits for p <= BIG

Num(lo, hi, elo, ehi) == [lo |-> lo, hi |-> hi, elo |-> elo, ehi |-> ehi]
NZero == Num(0, 0, 0, 0)
NOne == Num(SCALE, SCALE, 0, 0)
\* the rational p/q, p >= 0, q > 0
NRat(p, q) ==
    LET g == GCD(p, q)
        pr == p \div g
        qr == q \div g
        t == CeilDiv(pr, BIG)
    IN IF pr <= BIG
       THEN Num(FloorDiv(pr * SCALE, qr), CeilDiv(pr * SCALE, qr), 0, 0)
       ELSE Num(FloorDiv(FloorDiv(pr, t) * SCALE, CeilDiv(qr, t)),
                CeilDiv(CeilDiv(pr, t) * SCALE, FloorDiv(qr, t)), 0, 0)
NAdd(x, y) == Num(x.lo + y.lo, x.hi + y.hi, x.elo + y.elo, x.ehi + y.ehi)
NNeg(x) == Num(-x.hi, -x.lo, -x.ehi, -x.elo)
NSub(x, y) == NAdd(x, NNeg(y))
\* x * p / q for p >= 0, q > 0
NScale(x, p, q) ==
    Num(FloorDiv(x.lo * p, q), CeilDiv(x.hi * p, q),
        FloorDiv(x.elo * p, q), CeilDiv(x.ehi * p, q))
\* s[lo] + ... + s[hi], by halves
RECURSIVE NSumRange(_, _, _)
NSumRange(s, lo, hi) ==
    IF lo > hi THEN NZero
    ELSE IF lo = hi THEN s[lo]
    ELSE NAdd(NSumRange(s, lo, (lo + hi) \div 2), NSumRange(s, (lo + hi) \div 2 + 1, hi))
NSum(s) == NSumRange(s, 1, Len(s))

LexLess(a1, b1, a2, b2) == a1 < a2 \/ (a1 = a2 /\ b1 < b2)
\* np.clip(x, 0, 1)
NClip(x) ==
    LET lowLo == LexLess(x.lo, x.elo, 0, 0)
        lowHi == LexLess(SCALE, 0, x.lo, x.elo)
        upLo == LexLess(x.hi, x.ehi, 0, 0)
        upHi == LexLess(SCALE, 0, x.hi, x.ehi)
    IN Num(IF lowLo THEN 0 ELSE IF lowHi THEN SCALE ELSE x.lo,
           IF upLo THEN 0 ELSE IF upHi THEN SCALE ELSE x.hi,
           IF lowLo \/ lowHi THEN 0 ELSE x.elo,
           IF upLo \/ upHi THEN 0 ELSE x.ehi)

\* comparisons that hold for every number in the interval
DefGt(x, p, q) == LexLess(p * SCALE, 0, x.lo * q, x.elo)
DefGe(x, p, q) == ~LexLess(x.lo * q, x.elo, p * SCALE, 0)
DefLt(x, p, q) == LexLess(x.hi * q, x.ehi, p * SCALE, 0)
DefLe(x, p, q) == ~LexLess(p * SCALE, 0, x.hi * q, x.ehi)

\* log2 of an integer m >= 1 in units of 2^-LOG_BITS, rounded down / up
RECURSIVE FloorLog2(_)
FloorLog2(m) == IF m < 2 THEN 0 ELSE 1 + FloorLog2(m \div 2)
RECURSIVE LogFracLo(_, _)
LogFracLo(x, k) ==
    IF k = 0 THEN 0
    ELSE LET y == (x * x) \div MANT
         IN IF y >= 2 * MANT THEN Pow(2, k - 1) + LogFracLo(y \div 2, k - 1)
                             ELSE LogFracLo(y, k - 1)
RECURSIVE LogFracHi(_, _)
LogFracHi(x, k) ==
    IF k = 0 THEN (IF x = MANT THEN 0 ELSE 1)
    ELSE LET y == CeilDiv(x * x, MANT)
         IN IF y >= 2 * MANT THEN Pow(2, k - 1) + LogFracHi(CeilDiv(y, 2), k - 1)
                             ELSE LogFracHi(y, k - 1)
ILogLo(m) ==
    LET e == FloorLog2(m)
    IN e * Pow(2, LOG_BITS) + LogFracLo(m * (MANT \div Pow(2, e)), LOG_BITS)
ILogHi(m) ==
    LET e == FloorLog2(m)
    IN e * Pow(2, LOG_BITS) + LogFracHi(m * (MANT \div Pow(2, e)), LOG_BITS)

\* np.log2(n/d + 1e-12) for n/d > 0: log2(n/d) + 1e-12 * log2(e) * d/n
NLog2(n, d) ==
    LET g == GCD(n, d)
        nr == n \div g
        dr == d \div g
    IN Num(FloorDiv((ILogLo(nr) - ILogHi(dr)) * SCALE, Pow(2, LOG_BITS)),
           CeilDiv((ILogHi(nr) - ILogLo(dr)) * SCALE, Pow(2, LOG_BITS)),
           FloorDiv(LOG2E_LO * dr, nr),
           CeilDiv(LOG2E_HI * dr, nr))
\* -(n/d) * np.log2(n/d + 1e-12)
NEntropyTerm(n, d) == NNeg(NScale(NLog2(n, d), n, d))

\* -------------------------------------------------------------- pillars
Hamming(C) == SumFn([i \in BitIdx |-> C[i]], N_BITS)
\* np.sum(np.abs(np.diff(C)))
Transitions(C) ==
    SumFn([i \in 0..(N_BITS - 2) |-> Abs(C[i + 1] - C[i])], N_BITS - 1)

\* eigenvalues[eigenvalues > 1e-12] (also > 1e-10): the positive numerators,
\* every denominator of the model being far below 1e10
Positive(vals) == SelectSeq(vals, LAMBDA n : n > 0)

\* np.real(np.trace(rho @ rho)), every entry taken as a fraction of SCALE
PurityTerm(rho, i, j) ==
    LET a == Abs(rho.M[i][j])
        b == Abs(rho.M[j][i])
        lo == FloorDiv(FloorDiv(a * SCALE, rho.den) * FloorDiv(b * SCALE, rho.den), SCALE)
        hi == CeilDiv(CeilDiv(a * SCALE, rho.den) * CeilDiv(b * SCALE, rho.den), SCALE)
    IN IF Sgn(rho.M[i][j]) * Sgn(rho.M[j][i]) >= 0
       THEN Num(lo, hi, 0, 0) ELSE Num(-hi, -lo, 0, 0)
Purity(rho) ==
    NSum([k \in 1..(DIM_HILBERT * DIM_HILBERT) |->
            PurityTerm(rho, (k - 1) \div DIM_HILBERT, (k - 1) % DIM_HILBERT)])

\* -np.sum(eigenvalues * np.log2(eigenvalues + 1e-12)) over the kept ones
VonNeumann(rho) ==
    LET ev == Positive(eigvalsh(rho))
    IN NSum([k \in 1..Len(ev) |-> NEntropyTerm(ev[k], rho.den)])

circuit_depth_proxy(rho, n_qubits) ==
    LET purity == Purity(rho)
        entropy_normalized == NScale(VonNeumann(rho), 1, n_qubits)
    IN NAdd(NScale(NSub(NOne, purity), 1, 2), NScale(entropy_normalized, 1, 2))

compute_C_alg(state) ==
    LET hamming == NRat(Hamming(state.C), N_BITS)
        pattern == NRat(Transitions(state.C), N_BITS - 1)
        classical_complexity == NAdd(NScale(hamming, 1, 2), NScale(pattern, 1, 2))
        circuit_proxy == circuit_depth_proxy(state.Q, N_QUBITS)
    IN NAdd(NScale(classical_complexity, 3, 10), NScale(circuit_proxy, 7, 10))

\* the classical term of compute_C_info: 1 - parity_balance
syndrome_complexity(C) ==
    LET n_blocks == N_BITS \div 2
        odd == SumFn([i \in 0..(n_blocks - 1) |-> parity(C, 2 * i)], n_blocks)
        \* 2 * abs(np.mean(parities) - 0.5)
        parity_balance == NRat(Abs(2 * odd - n_blocks), n_blocks)
    IN NSub(NOne, parity_balance)

compute_C_info(state) ==
    LET mixedness == NSub(NOne, Purity(state.Q))
        rank == Len(Positive(eigvalsh(state.Q)))
        rank_normalized == NRat(rank - 1, DIM_HILBERT - 1)
    IN NAdd(NAdd(NScale(syndrome_complexity(state.C), 3, 10), NScale(mixedness, 5, 10)),
            NScale(rank_normalized, 2, 10))

\* block_counts over the two-bit blocks (0,0), (0,1), (1,0), (1,1)
BlockCount(bits, b) ==
    Cardinality({i \in 0..(N_BITS \div 2 - 1) : 2 * bits[2 * i] + bits[2 * i + 1] = b})
BlockEntropy(bits) ==
    LET total_blocks == N_BITS \div 2
        used == SelectSeq(<<0, 1, 2, 3>>, LAMBDA b : BlockCount(bits, b) > 0)
    IN NSum([k \in 1..Len(used) |-> NEntropyTerm(BlockCount(bits, used[k]), total_blocks)])

compute_bit_mixing_score(bits) ==
    LET n == N_BITS
        transitions == NRat(Transitions(bits), n - 1)
        dist_0 == Cardinality({i \in BitIdx : bits[i] # 0})
        dist_1 == Cardinality({i \in BitIdx : bits[i] # 1})
        dist_alt == Cardinality({i \in BitIdx : bits[i] # i % 2})
        pattern_distance == NRat(Min(dist_0, Min(dist_1, dist_alt)), n)
        block_entropy_norm == NScale(BlockEntropy(bits), 1, 2)
    IN NClip(NAdd(NAdd(NScale(transitions, 3, 10), NScale(pattern_distance, 4, 10)),
                  NScale(block_entropy_norm, 3, 10)))

\* np.std(eigenvals) / (np.mean(eigenvals) + 1e-12) over the kept eigenvalues:
\* sqrt(m sum(n^2) - sum(n)^2) / (sum(n) + m den 1e-12)
EigenvalueSpread(rho) ==
    LET ev == Positive(eigvalsh(rho))
        m == Len(ev)
        s1 == SumSeq(ev)
        s2 == SumSeq([k \in 1..m |-> ev[k] * ev[k]])
        v == m * s2 - s1 * s1
        cvlo == FloorDiv(SqrtFloor(v) * SCALE, s1)
        cvhi == CeilDiv(SqrtCeil(v) * SCALE, s1)
        rlo == FloorDiv(m * rho.den, s1)
        rhi == CeilDiv(m * rho.den, s1)
        cv == Num(cvlo, cvhi, -CeilDiv(cvhi * rhi * ESCALE, SCALE),
                  -FloorDiv(cvlo * rlo * ESCALE, SCALE))
    IN IF m > 1 THEN NClip(cv) ELSE NZero

\* the pillar with a bonus for the morphism tag
compute_C_dyn_tagged(state) ==
    LET mixing_score == compute_bit_mixing_score(state.C)
        eigenvalue_spread == EigenvalueSpread(state.Q)
        bonus == IF "f_dyn" \in state.morphisms_applied THEN NRat(3, 10) ELSE NZero
    IN NAdd(NAdd(NScale(mixing_score, 7, 10), NScale(eigenvalue_spread, 3, 10)), bonus)

compute_C_dyn(state) ==
    LET mixing_score == compute_bit_mixing_score(state.C)
        eigenvalue_spread == EigenvalueSpread(state.Q)
    IN NAdd(NScale(mixing_score, 7, 10), NScale(eigenvalue_spread, 3, 10))

\* ---------------------------------------------------------- point clouds
\* A cloud is its radial histogram: radius in 1/1000 -> number of points.
\* Every consumer of a cloud reads the radii alone (T_a and f_geom_inv keep
\* the angle, compute_C_geom takes the norm).
MILLI == 1000
ALPHA_NUM == 4          \* alpha = 0.8
ALPHA_DEN == 5
R_VOID == 300           \* a radius      r <= 0.544  (inside the void radius)
R_RING == 620           \* 0.544 < r <= 0.7048  (inside it after T_a, f_geom_inv)
R_RIM == 850            \* 0.7048 < r <= 1

\* Radii drawn by np.random.default_rng(seed).random(n), r = sqrt(u), for
\* seed = 0..255: <<number with r <= 0.544, number with 0.544 < r <= 0.7048>>
DISK_1000 ==
    <<<<273, 195>>, <<299, 203>>, <<304, 198>>, <<292, 206>>, <<274, 189>>, <<306, 213>>,
      <<284, 206>>, <<305, 195>>, <<287, 228>>, <<288, 210>>, <<294, 218>>, <<308, 208>>,
      <<323, 177>>, <<297, 200>>, <<293, 199>>, <<302, 193>>, <<299, 183>>, <<293, 207>>,
      <<318, 169>>, <<289, 189>>, <<326, 189>>, <<291, 197>>, <<307, 193>>, <<297, 194>>,
      <<296, 204>>, <<282, 192>>, <<292, 197>>, <<276, 202>>, <<264, 193>>, <<290, 213>>,
      <<259, 202>>, <<295, 196>>, <<303, 193>>, <<310, 217>>, <<281, 202>>, <<311, 203>>,
      <<284, 214>>, <<297, 182>>, <<317, 186>>, <<297, 207>>, <<309, 203>>, <<297, 176>>,
      <<303, 198>>, <<282, 218>>, <<328, 210>>, <<304, 194>>, <<321, 189>>, <<280, 199>>,
      <<312, 201>>, <<304, 201>>, <<303, 206>>, <<306, 211>>, <<318, 192>>, <<305, 191>>,
      <<310, 188>>, <<314, 172>>, <<279, 198>>, <<300, 190>>, <<291, 204>>, <<314, 201>>,
      <<310, 186>>, <<289, 195>>, <<285, 195>>, <<277, 210>>, <<300, 194>>, <<283, 200>>,
      <<315, 187>>, <<307, 195>>, <<296, 214>>, <<284, 203>>, <<293, 210>>, <<298, 197>>,
      <<283, 208>>, <<294, 203>>, <<290, 199>>, <<303, 200>>, <<314, 189>>, <<290, 223>>,
      <<273, 197>>, <<316, 184>>, <<287, 216>>, <<313, 197>>, <<274, 212>>, <<297, 226>>,
      <<294, 200>>, <<280, 183>>, <<280, 221>>, <<321, 205>>, <<296, 193>>, <<309, 195>>,
      <<295, 192>>, <<315, 207>>, <<295, 207>>, <<288, 187>>, <<275, 199>>, <<291, 218>>,
      <<288, 190>>, <<268, 221>>, <<309, 210>>, <<268, 199>>, <<272, 189>>, <<301, 224>>,
      <<279, 200>>, <<306, 174>>, <<287, 209>>, <<321, 207>>, <<304, 187>>, <<295, 191>>,
      <<282, 222>>, <<308, 183>>, <<329, 204>>, <<295, 203>>, <<300, 215>>, <<303, 195>>,
      <<301, 205>>, <<289, 200>>, <<329, 176>>, <<308, 207>>, <<271, 198>>, <<299, 212>>,
      <<325, 203>>, <<299, 199>>, <<324, 213>>, <<287, 210>>, <<291, 211>>, <<296, 193>>,
      <<273, 208>>, <<313, 198>>, <<294, 197>>, <<286, 210>>, <<306, 204>>, <<290, 204>>,
      <<288, 177>>, <<271, 184>>, <<288, 210>>, <<308, 196>>, <<301, 190>>, <<270, 206>>,
      <<296, 203>>, <<299, 195>>, <<300, 195>>, <<289, 211>>, <<267, 192>>, <<292, 218>>,
      <<288, 197>>, <<312, 194>>, <<304, 222>>, <<307, 181>>, <<272, 213>>, <<330, 194>>,
      <<309, 200>>, <<308, 186>>, <<281, 210>>, <<276, 222>>, <<270, 200>>, <<295, 209>>,
      <<299, 217>>, <<279, 197>>, <<294, 205>>, <<288, 202>>, <<283, 202>>, <<291, 179>>,
      <<301, 189>>, <<279, 219>>, <<285, 226>>, <<273, 213>>, <<313, 209>>, <<269, 221>>,
      <<287, 199>>, <<303, 190>>, <<295, 199>>, <<321, 187>>, <<310, 183>>, <<273, 185>>,
      <<297, 205>>, <<291, 206>>, <<300, 187>>, <<298, 198>>, <<293, 239>>, <<286, 210>>,
      <<288, 216>>, <<295, 195>>, <<277, 186>>, <<312, 189>>, <<316, 202>>, <<315, 199>>,
      <<292, 193>>, <<312, 182>>, <<306, 186>>, <<327, 205>>, <<269, 220>>, <<294, 182>>,
      <<310, 195>>, <<295, 196>>, <<288, 194>>, <<308, 206>>, <<309, 215>>, <<269, 212>>,
      <<283, 205>>, <<282, 193>>, <<279, 214>>, <<300, 233>>, <<300, 212>>, <<306, 198>>,
      <<297, 185>>, <<330, 195>>, <<288, 199>>, <<267, 212>>, <<298, 202>>, <<291, 188>>,
      <<310, 169>>, <<306, 181>>, <<280, 190>>, <<267, 212>>, <<310, 189>>, <<275, 210>>,
      <<280, 216>>, <<296, 206>>, <<292, 223>>, <<309, 188>>, <<297, 199>>, <<292, 201>>,
      <<287, 193>>, <<283, 191>>, <<297, 197>>, <<299, 202>>, <<291, 182>>, <<294, 208>>,
      <<297, 200>>, <<323, 176>>, <<295, 200>>, <<331, 184>>, <<282, 200>>, <<280, 195>>,
      <<312, 206>>, <<279, 204>>, <<327, 195>>, <<311, 193>>, <<271, 192>>, <<307, 194>>,
      <<304, 208>>, <<300, 212>>, <<304, 201>>, <<289, 209>>, <<277, 212>>, <<284, 191>>,
      <<304, 175>>, <<293, 195>>, <<293, 209>>, <<294, 209>>, <<288, 209>>, <<282, 204>>,
      <<278, 207>>, <<330, 191>>, <<298, 208>>, <<284, 202>>>>
DISK_10000 ==
    <<<<2962, 2008>>, <<2934, 1991>>, <<2993, 1999>>, <<2989, 2005>>, <<2919, 2041>>,
      <<2970, 2015>>, <<2989, 2031>>, <<2984, 1971>>, <<2836, 2085>>, <<2940, 2041>>,
      <<2902, 2069>>, <<3042, 2022>>, <<2945, 2007>>, <<2970, 2039>>, <<2971, 2008>>,
      <<2973, 1880>>, <<2931, 1999>>, <<2993, 2063>>, <<2980, 1961>>, <<2983, 1956>>,
      <<3045, 1965>>, <<2935, 2003>>, <<2960, 1941>>, <<2910, 2056>>, <<2944, 1955>>,
      <<3018, 1978>>, <<2917, 2016>>, <<2975, 1954>>, <<2933, 2028>>, <<2938, 2055>>,
      <<2854, 2017>>, <<2894, 2019>>, <<2954, 2039>>, <<3011, 2015>>, <<2995, 1987>>,
      <<2973, 2071>>, <<2958, 2022>>, <<2896, 2019>>, <<2990, 1984>>, <<2940, 2068>>,
      <<3076, 1983>>, <<2984, 1930>>, <<3006, 1979>>, <<2963, 1956>>, <<3032, 1969>>,
      <<2971, 1960>>, <<3030, 1957>>, <<2796, 2058>>, <<2919, 2019>>, <<2956, 2021>>,
      <<2923, 2020>>, <<2970, 1986>>, <<2966, 2017>>, <<3011, 1964>>, <<2984, 2002>>,
      <<2972, 1962>>, <<2937, 2024>>, <<2942, 1981>>, <<3018, 1952>>, <<2865, 2020>>,
      <<3011, 1971>>, <<2932, 2038>>, <<2969, 1944>>, <<2917, 1999>>, <<3004, 1994>>,
      <<2959, 1981>>, <<2927, 1987>>, <<2962, 2035>>, <<2998, 2011>>, <<2994, 1962>>,
      <<2963, 2075>>, <<2996, 1934>>, <<2918, 2087>>, <<2979, 1962>>, <<2907, 2040>>,
      <<2962, 1974>>, <<2949, 1966>>, <<3017, 2026>>, <<2928, 1983>>, <<2947, 1991>>,
      <<2980, 1985>>, <<2977, 2091>>, <<2882, 2023>>, <<2932, 2021>>, <<3005, 1965>>,
      <<2989, 1978>>, <<2900, 2037>>, <<2962, 2052>>, <<2951, 1995>>, <<2924, 1980>>,
      <<2954, 2018>>, <<3017, 2068>>, <<3003, 2008>>, <<2921, 2004>>, <<2909, 2024>>,
      <<2933, 2082>>, <<2979, 1995>>, <<2963, 1954>>, <<2917, 2014>>, <<2946, 1975>>,
      <<2960, 1980>>, <<2962, 1985>>, <<2997, 1987>>, <<2925, 1969>>, <<2979, 1987>>,
      <<2930, 2015>>, <<2948, 1991>>, <<2927, 2004>>, <<2914, 2033>>, <<2961, 1998>>,
      <<3002, 1944>>, <<2877, 2095>>, <<2967, 2027>>, <<2926, 2049>>, <<2936, 2009>>,
      <<2982, 2023>>, <<2925, 1997>>, <<2937, 2007>>, <<2879, 2014>>, <<2994, 1989>>,
      <<2980, 2013>>, <<2979, 2061>>, <<2960, 1990>>, <<2970, 2051>>, <<2977, 1993>>,
      <<3014, 2033>>, <<3015, 2099>>, <<2915, 2045>>, <<3038, 1954>>, <<2945, 2022>>,
      <<2926, 2047>>, <<2969, 2015>>, <<2954, 2006>>, <<2920, 2080>>, <<2969, 1970>>,
      <<2954, 1988>>, <<2917, 1968>>, <<2964, 2044>>, <<2980, 2063>>, <<2982, 1998>>,
      <<2963, 1945>>, <<2915, 2045>>, <<2953, 1949>>, <<2979, 1999>>, <<2901, 1979>>,
      <<2923, 2044>>, <<2949, 2000>>, <<2981, 1948>>, <<2892, 2013>>, <<2955, 2041>>,
      <<2949, 1996>>, <<2972, 1963>>, <<2901, 2073>>, <<2942, 1975>>, <<3035, 1956>>,
      <<2920, 2043>>, <<2976, 2065>>, <<2987, 2033>>, <<3034, 2040>>, <<3009, 1930>>,
      <<3063, 1958>>, <<2972, 1982>>, <<3079, 1959>>, <<2958, 2039>>, <<2932, 2047>>,
      <<2925, 2022>>, <<3034, 1999>>, <<2978, 2053>>, <<2888, 2044>>, <<2977, 2004>>,
      <<2877, 1994>>, <<2927, 1992>>, <<2977, 1993>>, <<2972, 1971>>, <<2935, 1931>>,
      <<3031, 1974>>, <<2990, 1990>>, <<2938, 1999>>, <<2997, 2005>>, <<3028, 1933>>,
      <<2876, 2031>>, <<2946, 2013>>, <<2960, 2008>>, <<2866, 2042>>, <<2975, 2012>>,
      <<2906, 2048>>, <<3027, 1985>>, <<2967, 2000>>, <<2918, 1942>>, <<2955, 2086>>,
      <<2956, 1983>>, <<3007, 2016>>, <<3020, 1978>>, <<2876, 2012>>, <<2969, 1996>>,
      <<2921, 2026>>, <<2903, 2039>>, <<2960, 2033>>, <<2963, 2030>>, <<2871, 2049>>,
      <<2965, 2009>>, <<3000, 2027>>, <<2899, 2016>>, <<2942, 2042>>, <<2969, 1999>>,
      <<2985, 2037>>, <<2973, 2012>>, <<2864, 1964>>, <<3024, 1934>>, <<2967, 1949>>,
      <<2913, 1965>>, <<2884, 2006>>, <<2961, 2027>>, <<2915, 1994>>, <<2959, 1969>>,
      <<2963, 2020>>, <<2936, 2017>>, <<2925, 2051>>, <<2936, 2065>>, <<3038, 1990>>,
      <<2940, 2003>>, <<2985, 1957>>, <<3005, 2104>>, <<2991, 2017>>, <<2979, 1899>>,
      <<2955, 1964>>, <<2938, 2003>>, <<2975, 1988>>, <<2980, 1975>>, <<3022, 1971>>,
      <<2950, 2011>>, <<3007, 2016>>, <<3005, 1932>>, <<3033, 1999>>, <<2996, 2083>>,
      <<2951, 2012>>, <<2896, 2004>>, <<2949, 1993>>, <<2957, 2021>>, <<2892, 2036>>,
      <<3004, 1998>>, <<2866, 2148>>, <<3016, 1951>>, <<2931, 2033>>, <<2894, 2086>>,
      <<2876, 1984>>, <<2948, 1991>>, <<2935, 2043>>, <<3066, 2060>>, <<3028, 2004>>,
      <<2945, 2035>>, <<2949, 2044>>, <<3000, 1956>>, <<2986, 1974>>, <<2982, 2008>>,
      <<2865, 2095>>>>

DiskCounts(seed, n_points) ==
    IF n_points = N_POINTS_PILLAR THEN DISK_1000[seed + 1] ELSE DISK_10000[seed + 1]

bits_to_points(bits, n_points) ==
    LET seed == BitsToIntMSB(bits)      \* below 2^8, so % (2**31) leaves it
        c == DiskCounts(seed, n_points)
    IN [r \in {R_VOID, R_RING, R_RIM} |->
           IF r = R_VOID THEN c[1]
           ELSE IF r = R_RING THEN c[2]
           ELSE n_points - c[1] - c[2]]

\* the histogram of f(r) over the cloud
Image(points, f) ==
    [r2 \in {f[r] : r \in DOMAIN points} |->
        SumSet([r \in DOMAIN points |-> IF f[r] = r2 THEN points[r] ELSE 0], DOMAIN points)]
CountWithin(points, r_0) ==
    SumSet([r \in DOMAIN points |-> IF r <= r_0 THEN points[r] ELSE 0], DOMAIN points)
CloudSize(points) == CountWithin(points, MILLI)

\* r' = sqrt(a^2 + (1 - a^2) r^2)
TaRadius(r, a) ==
    LET g == GCD(MILLI * MILLI - a * a, MILLI * MILLI)
    IN SqrtFloor(a * a + (((MILLI * MILLI - a * a) \div g) * r * r) \div ((MILLI * MILLI) \div g))
\* the map that leaves every radius where it is
T_a_identity(points, a) == points
T_a(points, a) == Image(points, [r \in DOMAIN points |-> TaRadius(r, a)])

\* r_disk = np.clip((r_annulus - a) / (1.0 - a), 0, 1)
InvRadius(r, a) == Max(0, Min(MILLI, FloorDiv((r - a) * MILLI, MILLI - a)))

compute_C_geom(state, a) ==
    LET points == IF state.points # None THEN state.points
                  ELSE bits_to_points(state.C, N_POINTS_PILLAR)
        r_0 == (ALPHA_NUM * a) \div ALPHA_DEN
        \* expected_frac = r_0^2, observed_frac = np.mean(r <= r_0)
        g == GCD(r_0 * r_0, MILLI * MILLI)
        inside == CountWithin(points, r_0)
        ratio == NRat(inside * ((MILLI * MILLI) \div g), CloudSize(points) * ((r_0 * r_0) \div g))
    IN IF r_0 > 0 THEN NClip(NSub(NOne, ratio)) ELSE NZero

\* what float arithmetic gives for 0/0: np.mean of an empty array
NaN == [nan |-> TRUE]
IsNumber(v) == "lo" \in DOMAIN v

\* alpha = 0.8; a is a multiple of 0.005, so that r_0 is a whole 1/1000
central_void_score(points, a) ==
    LET r_0 == (ALPHA_NUM * a) \div ALPHA_DEN
        n == SumSet(points, DOMAIN points)
        g == GCD(r_0 * r_0, MILLI * MILLI)
        inside == CountWithin(points, r_0)
        ratio == NRat(inside * ((MILLI * MILLI) \div g), n * ((r_0 * r_0) \div g))
    IN IF r_0 = 0 THEN NZero
       ELSE IF n = 0 THEN NaN
       ELSE NClip(NSub(NOne, ratio))

\* ---------------------------------------------------------- SystemState
SystemState(C, Q, morphisms_applied) ==
    [C |-> C, Q |-> Q, morphisms_applied |-> morphisms_applied, points |-> None]

initial_state ==
    SystemState(ZeroBits, Rho(<<>>, [i \in Idx |-> [j \in Idx |-> IF i = 0 /\ j = 0 THEN 1 ELSE 0]], 1), {})

\* --------------------------------------------------- forward morphisms
\* f_alg with the classical component left as it came in
morphism_1_keep_bits(state, seed) ==
    SystemState(state.C, GHZ_STATE, state.morphisms_applied \cup {"f_alg"})

morphism_1_circuit_compilation(state, seed) ==
    SystemState(prg_expand(seed, N_BITS).output,
                GHZ_STATE,
                state.morphisms_applied \cup {"f_alg"})

\* the syndrome encoding with block 0 treated as the other blocks: the
\* outcome is not written
SyndromeEncode_all_blocks(C, outcome) ==
    [i \in BitIdx |-> IF i % 2 = 0 THEN (C[i] + parity(C, i)) % 2 ELSE C[i]]

\* the outcome written into bit 0 and no syndrome XOR
SyndromeEncode_no_xor(C, outcome) == [i \in BitIdx |-> IF i = 0 THEN outcome ELSE C[i]]

SyndromeEncode(C, outcome) ==
    [i \in BitIdx |->
        IF i = 0 THEN outcome
        ELSE IF i % 2 = 0 THEN (C[i] + parity(C, i)) % 2
        ELSE C[i]]

morphism_2_syndrome_encoding(state, u) ==
    LET m == measure_qubit(state.Q, 0, N_QUBITS, u)
    IN SystemState(SyndromeEncode(state.C, m.outcome), m.rho_post,
                   state.morphisms_applied \cup {"f_info"})

\* f_dyn with the classical component left as it came in
morphism_3_keep_bits(state) ==
    SystemState(state.C, kicked_ising_evolution(state.Q, N_KICKS),
                state.morphisms_applied \cup {"f_dyn"})

morphism_3_arnold_cat(state) ==
    SystemState(arnold_cat_map_bits(state.C),
                kicked_ising_evolution(state.Q, N_KICKS),
                state.morphisms_applied \cup {"f_dyn"})

morphism_4_disk_to_annulus(state, n_points) ==
    [C |-> state.C, Q |-> state.Q,
     morphisms_applied |-> state.morphisms_applied \cup {"f_geom"},
     points |-> T_a(bits_to_points(state.C, n_points), A_PARAM)]

\* --------------------------------------------------- inverse morphisms
f_geom_inv(state) ==
    [C |-> state.C, Q |-> state.Q,
     morphisms_applied |-> state.morphisms_applied \ {"f_geom"},
     points |-> IF state.points # None
                THEN Image(state.points,
                           [r \in DOMAIN state.points |-> InvRadius(r, A_PARAM)])
                ELSE None]

\* unmixed[i] = (C[i] + C[(i+1) % n] + C[(i-1) % n]) % 2, then
\* C_inv[(2*i + i//2) % n] = unmixed[i] for i = 0..n-1 in turn: the last
\* write to an index stays, an index never written keeps its 0
Unmix(C) ==
    LET n == N_BITS
        unmixed == [i \in BitIdx |-> (C[i] + C[(i + 1) % n] + C[(i + n - 1) % n]) % 2]
        writers(k) == {i \in BitIdx : (2 * i + i \div 2) % n = k}
    IN [k \in BitIdx |->
           IF writers(k) = {} THEN 0
           ELSE unmixed[CHOOSE i \in writers(k) : \A j \in writers(k) : j <= i]]

\* f_dyn_inv handing the cloud of its input on to its result
f_dyn_inv_keep_points(state) ==
    [C |-> Unmix(state.C),
     Q |-> [U |-> Compose(matrix_power(<<Letter("kick", -1), Letter("ising", -1)>>, N_KICKS),
                          state.Q.U),
            M |-> state.Q.M, den |-> state.Q.den],
     morphisms_applied |-> state.morphisms_applied \ {"f_dyn"},
     points |-> state.points]

f_dyn_inv(state) ==
    LET U_floquet_dag == <<Letter("kick", -1), Letter("ising", -1)>>
        U_total_dag == matrix_power(U_floquet_dag, N_KICKS)
    IN SystemState(Unmix(state.C),
                   [U |-> Compose(U_total_dag, state.Q.U), M |-> state.Q.M, den |-> state.Q.den],
                   state.morphisms_applied \ {"f_dyn"})

SyndromeDecode(C) ==
    [i \in BitIdx |->
        IF i = 0 THEN 0
        ELSE IF i % 2 = 0 THEN (C[i] + 2 - parity(C, i)) % 2
        ELSE C[i]]

f_info_inv(state) ==
    SystemState(SyndromeDecode(state.C), Outer(state.Q.U, Dominant(state.Q)),
                state.morphisms_applied \ {"f_info"})

\* for target in range(N_QUBITS-1, 0, -1): psi is taken afresh from Q in every
\* round, so the gate of the last round (target 1) is the one that acts
RECURSIVE AlgInvLoop(_, _, _)
AlgInvLoop(Q, psi, target) ==
    IF target = 0 THEN psi
    ELSE LET dominant == Dominant(Q)
         IN AlgInvLoop(Q,
                       [n |-> MatVec(CNOT[0][target], dominant.n), D |-> dominant.D],
                       target - 1)

\* f_alg_inv without the Hadamard
f_alg_inv_no_hadamard(state) ==
    SystemState(ZeroBits,
                Outer(<<>>, AlgInvLoop(state.Q, [n |-> [i \in Idx |-> 0], D |-> 1], N_QUBITS - 1)),
                {})

\* f_alg_inv leaving the classical component and the labels of its input
f_alg_inv_keep_classical(state) ==
    SystemState(state.C,
                Outer(<<>>, ApplyH(AlgInvLoop(state.Q, [n |-> [i \in Idx |-> 0], D |-> 1],
                                              N_QUBITS - 1))),
                state.morphisms_applied \ {"f_alg"})

f_alg_inv(state) ==
    LET psi == AlgInvLoop(state.Q, [n |-> [i \in Idx |-> 0], D |-> 1], N_QUBITS - 1)
    IN SystemState(ZeroBits, Outer(<<>>, ApplyH(psi)), {})

phi_closing_isomorphism(state) ==
    LET X_3_back == f_geom_inv(state)
        X_2_back == f_dyn_inv(X_3_back)
        X_1_back == f_info_inv(X_2_back)
    IN f_alg_inv(X_1_back)

\* ---------------------------------------------------- global generator
\* np.random.random_sample() after np.random.seed(seed): the first draws of
\* MT19937 seeded with the integer, to four decimals
SweepSeeds == {7, 13, 37, 42}
LEGACY_DRAWS ==
    [seed \in SweepSeeds |->
        CASE seed = 7 -> <<763, 7799, 4384, 7234, 9779>>
          [] seed = 13 -> <<7777, 2375, 8242, 9657, 9726>>
          [] seed = 37 -> <<9444, 4640, 1927, 5818, 6200>>
          [] seed = 42 -> <<3745, 9507, 7319, 5986, 1560>>]
Seeded(seed) == [seed |-> seed, pos |-> 0]
Uniform(g) == LEGACY_DRAWS[g.seed][g.pos + 1]
\* a generator left where it was
KeepPosition(g) == g
Advance(g) == [g EXCEPT !.pos = g.pos + 1]

\* ------------------------------------------------------------ objects
\* The attributes of a SystemState are references to numpy arrays and a set.
COMPS == <<"C", "Q", "morphisms_applied", "points">>
Components == {COMPS[i] : i \in 1..Len(COMPS)}
CompIndex(c) == CHOOSE i \in 1..Len(COMPS) : COMPS[i] = c

\* For each attribute of the state a call returns: "new" when it is an
\* object made by the call (a computed array, a .copy()), "same" when it is
\* the very object of the input, which the call's writes then reach.
\*   f_alg   C_1 = prg_expand(..), Q_1 = prepare_ghz_state(..), labels .copy()
\*   f_info  C_2 = C_1.copy(), Q_2 from measure_qubit, labels .copy()
\*   f_dyn   C_3 = arnold_cat_map_bits(..) (result = np.zeros), Q_3 a product
\*   f_geom  C_3.copy(), Q_3.copy(), labels .copy(), points from T_a
\*   f_geom_inv  C.copy(), Q.copy(), labels .copy(), points a new array
\*   f_dyn_inv   np.zeros_like, a matrix product, labels .copy()
\*   f_info_inv  C.copy(), np.outer, labels .copy()
\*   f_alg_inv   np.zeros, np.outer, set();  phi returns f_alg_inv's state
Objects_f_info_writes_input(name) ==
    [c \in Components |-> IF name = "f_info" /\ c = "C" THEN "same" ELSE "new"]

Objects(name) ==
    CASE name = "f_alg" -> [c \in Components |-> "new"]
      [] name = "f_info" -> [c \in Components |-> "new"]
      [] name = "f_dyn" -> [c \in Components |-> "new"]
      [] name = "f_geom" -> [c \in Components |-> "new"]
      [] name = "f_geom_inv" -> [c \in Components |-> "new"]
      [] name = "f_dyn_inv" -> [c \in Components |-> "new"]
      [] name = "f_info_inv" -> [c \in Components |-> "new"]
      [] name = "f_alg_inv" -> [c \in Components |-> "new"]
      [] name = "phi" -> [c \in Components |-> "new"]

\* a heap holding one state, and the addresses of that state in it
Store(state) == [i \in 1..Len(COMPS) |-> state[COMPS[i]]]
NewObjects(base) == [c \in Components |-> base + CompIndex(c)]
\* the state read through its references
Deref(h, r) == [c \in Components |-> h[r[c]]]
\* the references of the state a call returns, and the heap after the call
ResultRefs(h, inp, objects) ==
    [c \in Components |-> IF objects[c] = "same" THEN inp[c] ELSE Len(h) + CompIndex(c)]
HeapAfter(h, inp, result, objects) ==
    [a \in 1..(Len(h) + Len(COMPS)) |->
        IF \E c \in Components : objects[c] = "same" /\ inp[c] = a
        THEN result[CHOOSE c \in Components : objects[c] = "same" /\ inp[c] = a]
        ELSE IF a <= Len(h) THEN h[a]
        ELSE result[COMPS[a - Len(h)]]]

\* ------------------------------------------------------- state machine
VARIABLES
    cur,        \* the SystemState the caller holds
    rng,        \* the process-wide generator: its seed and the draws taken
    PRG_SEED,   \* the module-level seed array of the LFSR
    path,       \* X0, X1, ... while the calls follow the cycle from initial_state()
    calls,      \* the calls made so far
    lastRun,    \* per seed, the number of runs of run_cycle_with_seed and the
                \* stages X1..X4 of the latest one
    heap,       \* the objects (arrays, sets, clouds) alive: address -> value
    refs,       \* the states the caller holds, each as the addresses of its
                \* four attributes; the last one is cur
    held,       \* the value each of those states had when it was returned
    fnIn,       \* the argument of a function called on its own, or None
    fnOut       \* what that call returned, or None before it has returned

program == <<cur, rng, PRG_SEED, path, calls, lastRun, heap, refs, held>>
vars == <<cur, rng, PRG_SEED, path, calls, lastRun, heap, refs, held, fnIn, fnOut>>

CYCLE == <<"f_alg", "f_info", "f_dyn", "f_geom", "phi">>

InitProgram ==
    /\ cur = initial_state
    /\ rng = Seeded(RANDOM_SEED)
    /\ PRG_SEED = PRG_SEED_INIT
    /\ path = <<initial_state>>
    /\ calls = 0
    /\ lastRun = [seed \in SweepSeeds |-> [n |-> 0, stages |-> None]]
    /\ heap = Store(initial_state)
    /\ refs = <<NewObjects(0)>>
    /\ held = <<initial_state>>

Init == InitProgram /\ fnIn = None /\ fnOut = None

\* the program as loaded, about to call a function on one of `inputs`
InitCall(inputs) == InitProgram /\ fnIn \in inputs /\ fnOut = None

\* the caller replaces its state by the result of the call `name`; it keeps
\* the earlier states while the calls follow the cycle, and otherwise the
\* input of the call alone
Return(name, result) ==
    LET onPath == path # <<>> /\ Len(path) <= Len(CYCLE) /\ CYCLE[Len(path)] = name
        inp == IF onPath THEN refs[Len(refs)] ELSE NewObjects(0)
        h == IF onPath THEN heap ELSE Store(Deref(heap, refs[Len(refs)]))
    IN /\ calls < MaxCalls
       /\ calls' = calls + 1
       /\ cur' = result
       /\ path' = IF onPath THEN Append(path, result) ELSE <<>>
       /\ heap' = HeapAfter(h, inp, result, Objects(name))
       /\ refs' = Append(IF onPath THEN refs ELSE <<inp>>, ResultRefs(h, inp, Objects(name)))
       /\ held' = Append(IF onPath THEN held ELSE <<held[Len(held)]>>, result)
       /\ UNCHANGED <<fnIn, fnOut>>

GeomInvDefined(state) ==
    IF state.points = None THEN TRUE ELSE \A r \in DOMAIN state.points : r >= A_PARAM

Call_initial_state ==
    /\ calls < MaxCalls
    /\ calls' = calls + 1
    /\ cur' = initial_state
    /\ path' = <<initial_state>>
    /\ heap' = Store(initial_state)
    /\ refs' = <<NewObjects(0)>>
    /\ held' = <<initial_state>>
    /\ UNCHANGED <<rng, PRG_SEED, lastRun, fnIn, fnOut>>

Call_f_alg ==
    /\ Return("f_alg", morphism_1_circuit_compilation(cur, PRG_SEED))
    /\ PRG_SEED' = prg_expand(PRG_SEED, N_BITS).seed_after
    /\ UNCHANGED <<rng, lastRun>>

Call_f_info ==
    /\ cur.Q.U = <<>>
    /\ rng.pos < MaxDraws
    /\ Return("f_info", morphism_2_syndrome_encoding(cur, Uniform(rng)))
    /\ rng' = Advance(rng)
    /\ UNCHANGED <<PRG_SEED, lastRun>>

Call_f_dyn ==
    LET result == morphism_3_arnold_cat(cur)
    IN /\ Len(result.Q.U) <= MaxWord
       /\ Return("f_dyn", result)
       /\ UNCHANGED <<rng, PRG_SEED, lastRun>>

Call_f_geom ==
    /\ Return("f_geom", morphism_4_disk_to_annulus(cur, N_POINTS_GEOM))
    /\ UNCHANGED <<rng, PRG_SEED, lastRun>>

Call_f_geom_inv ==
    /\ GeomInvDefined(cur)
    /\ Return("f_geom_inv", f_geom_inv(cur))
    /\ UNCHANGED <<rng, PRG_SEED, lastRun>>

Call_f_dyn_inv ==
    LET result == f_dyn_inv(cur)
    IN /\ Len(result.Q.U) <= MaxWord
       /\ Return("f_dyn_inv", result)
       /\ UNCHANGED <<rng, PRG_SEED, lastRun>>

Call_f_info_inv ==
    /\ Return("f_info_inv", f_info_inv(cur))
    /\ UNCHANGED <<rng, PRG_SEED, lastRun>>

Call_f_alg_inv ==
    /\ cur.Q.U = <<>>
    /\ Return("f_alg_inv", f_alg_inv(cur))
    /\ UNCHANGED <<rng, PRG_SEED, lastRun>>

Call_phi ==
    /\ GeomInvDefined(cur)
    /\ Len(f_dyn_inv(f_geom_inv(cur)).Q.U) = 0
    /\ Return("phi", phi_closing_isomorphism(cur))
    /\ UNCHANGED <<rng, PRG_SEED, lastRun>>

Next ==
    \/ Call_initial_state
    \/ Call_f_alg
    \/ Call_f_info
    \/ Call_f_dyn
    \/ Call_f_geom
    \/ Call_f_geom_inv
    \/ Call_f_dyn_inv
    \/ Call_f_info_inv
    \/ Call_f_alg_inv
    \/ Call_phi

Spec == Init /\ [][Next]_vars

\* robustness_sweep.py: run_cycle_with_seed for one seed after another
run_cycle_with_seed(seed) ==
    LET X0 == initial_state
        X1 == morphism_1_circuit_compilation(X0, PRG_SEED)
        X2 == morphism_2_syndrome_encoding(X1, Uniform(Seeded(seed)))
        X3 == morphism_3_arnold_cat(X2)
        X4 == morphism_4_disk_to_annulus(X3, N_POINTS_GEOM)
    IN /\ lastRun[seed].n < MaxRuns
       /\ rng' = Advance(Seeded(seed))
       /\ PRG_SEED' = prg_expand(PRG_SEED, N_BITS).seed_after
       /\ lastRun' = [lastRun EXCEPT ![seed] =
                         [n |-> lastRun[seed].n + 1, stages |-> <<X1, X2, X3, X4>>]]
       /\ UNCHANGED <<cur, path, calls, heap, refs, held, fnIn, fnOut>>

\* the deltas run_cycle_with_seed reports for the stages X1..X4, and their sum
SweepDeltas(stages) ==
    LET d == <<NSub(compute_C_alg(stages[1]), compute_C_alg(initial_state)),
               NSub(compute_C_info(stages[2]), compute_C_info(stages[1])),
               NSub(compute_C_dyn(stages[3]), compute_C_dyn(stages[2])),
               NSub(compute_C_geom(stages[4], A_PARAM), compute_C_geom(stages[3], A_PARAM))>>
    IN [delta_alg |-> d[1], delta_info |-> d[2], delta_dyn |-> d[3], delta_geom |-> d[4],
        sigma_delta |-> NAdd(NAdd(d[1], d[2]), NAdd(d[3], d[4]))]

NextSweep == \E seed \in SweepSeeds : run_cycle_with_seed(seed)

SpecSweep == Init /\ [][NextSweep]_vars

\* arnold_cat_map_bits called on any 8-bit vector
Bits8 == [BitIdx -> {0, 1}]
Call_arnold_cat_map_bits ==
    /\ fnOut = None
    /\ fnOut' = arnold_cat_map_bits(fnIn)
    /\ UNCHANGED <<program, fnIn>>
SpecCat == InitCall(Bits8) /\ [][Call_arnold_cat_map_bits]_vars

\* f_alg called on a state of the wrong shape: a classical component of
\* fewer than N_BITS bits, or a 4x4 quantum component. The function reads
\* state.morphisms_applied alone, tests nothing and raises nothing.
Q_TWO_QUBITS ==
    [U |-> <<>>, den |-> 1,
     M |-> [i \in 0..3 |-> [j \in 0..3 |-> IF i = 0 /\ j = 0 THEN 1 ELSE 0]]]
WrongShape ==
    {[C |-> c, Q |-> q, morphisms_applied |-> {}, points |-> None] :
        c \in UNION {[0..(n - 1) -> {0, 1}] : n \in MinLen..N_BITS},
        q \in {initial_state.Q, Q_TWO_QUBITS}}
      \ {SystemState(c, initial_state.Q, {}) : c \in Bits8}
Returned(value) == [raised |-> "", returned |-> value]
Call_f_alg_wrong_shape ==
    /\ fnOut = None
    /\ fnOut' = Returned(morphism_1_circuit_compilation(fnIn, PRG_SEED))
    /\ UNCHANGED <<program, fnIn>>
SpecShape == InitCall(WrongShape) /\ [][Call_f_alg_wrong_shape]_vars

\* f_info called on a state of any classical component; its quantum
\* component is the origin's, the one f_alg prepares, or (|index 0> +
\* |index 1>)/sqrt(2), where qubit 0 has each outcome with probability 1/2.
\* The generator has been seeded by the caller.
PLUS_ON_QUBIT_0 ==
    Outer(<<>>, [n |-> [i \in Idx |-> IF i \in {0, 1} THEN 1 ELSE 0], D |-> 2])
InfoInputs ==
    {SystemState(c, q, {}) : c \in Bits8, q \in {initial_state.Q, GHZ_STATE, PLUS_ON_QUBIT_0}}
Call_f_info_on ==
    /\ fnOut = None
    /\ fnOut' = morphism_2_syndrome_encoding(fnIn, Uniform(rng))
    /\ rng' = Advance(rng)
    /\ UNCHANGED <<cur, PRG_SEED, path, calls, lastRun, heap, refs, held, fnIn>>
SpecInfo ==
    /\ cur = initial_state /\ PRG_SEED = PRG_SEED_INIT /\ path = <<initial_state>>
    /\ calls = 0 /\ lastRun = [seed \in SweepSeeds |-> [n |-> 0, stages |-> None]]
    /\ heap = Store(initial_state) /\ refs = <<NewObjects(0)>> /\ held = <<initial_state>>
    /\ rng \in {Seeded(seed) : seed \in SweepSeeds}
    /\ fnIn \in InfoInputs /\ fnOut = None
    /\ [][Call_f_info_on]_vars

\* measure_qubit called on a density matrix and a qubit index: the
\* projectors on the basis states, the matrix f_alg prepares and its
\* measured form, (|index 0> + |index 1>)/sqrt(2) and (|000> + |111>)/sqrt(2)
GHZ_000_111 ==
    Outer(<<>>, [n |-> [i \in Idx |-> IF i \in {0, DIM_HILBERT - 1} THEN 1 ELSE 0], D |-> 2])
MeasureRhos ==
    {Outer(<<>>, BasisVec(k)) : k \in Idx}
      \cup {GHZ_STATE, measure_qubit(GHZ_STATE, 0, N_QUBITS, 0).rho_post,
            PLUS_ON_QUBIT_0, GHZ_000_111}
Call_measure_qubit ==
    /\ fnOut = None
    /\ fnOut' = measure_qubit(fnIn.rho, fnIn.qubit_index, N_QUBITS, Uniform(rng))
    /\ rng' = Advance(rng)
    /\ UNCHANGED <<cur, PRG_SEED, path, calls, lastRun, heap, refs, held, fnIn>>
SpecMeasure ==
    /\ cur = initial_state /\ PRG_SEED = PRG_SEED_INIT /\ path = <<initial_state>>
    /\ calls = 0 /\ lastRun = [seed \in SweepSeeds |-> [n |-> 0, stages |-> None]]
    /\ heap = Store(initial_state) /\ refs = <<NewObjects(0)>> /\ held = <<initial_state>>
    /\ rng \in {Seeded(seed) : seed \in SweepSeeds}
    /\ fnIn \in [rho : MeasureRhos, qubit_index : 0..(N_QUBITS - 1)] /\ fnOut = None
    /\ [][Call_measure_qubit]_vars

\* prg_expand(seed, N_BITS) on each 4-bit seed, one round of its loop at a
\* time: fnOut holds the register (state) and the bits put out (output)
Seeds4 == [0..3 -> {0, 1}]
prg_expand_round ==
    /\ Len(fnOut.output) < N_BITS
    /\ fnOut' = [state |-> LfsrStep(fnOut.state),
                 output |-> Append(fnOut.output, fnOut.state[0])]
    /\ UNCHANGED <<program, fnIn>>
SpecPrg ==
    /\ cur = initial_state /\ PRG_SEED = PRG_SEED_INIT /\ path = <<initial_state>>
    /\ calls = 0 /\ lastRun = [seed \in SweepSeeds |-> [n |-> 0, stages |-> None]]
    /\ heap = Store(initial_state) /\ refs = <<NewObjects(0)>> /\ held = <<initial_state>>
    /\ rng = Seeded(RANDOM_SEED)
    /\ fnIn \in Seeds4
    /\ fnOut = [state |-> fnIn, output |-> <<>>]
    /\ [][prg_expand_round]_vars

\* f_info, f_dyn, f_info_inv or f_dyn_inv called on a state of any
\* classical component, and the inverse called on what the forward morphism
\* returned. fnOut lists the calls made, each with the state it returned.
InverseInputs == {SystemState(c, PLUS_ON_QUBIT_0, {}) : c \in Bits8}
INVERSE_OF == [f_info |-> "f_info_inv", f_dyn |-> "f_dyn_inv"]
Called(name, state) ==
    /\ \/ fnOut = <<>>
       \/ /\ Len(fnOut) = 1
          /\ fnOut[1].call \in DOMAIN INVERSE_OF
          /\ INVERSE_OF[fnOut[1].call] = name
    /\ fnOut' = Append(fnOut, [call |-> name, state |-> state])
    /\ UNCHANGED <<cur, PRG_SEED, path, calls, lastRun, heap, refs, held, fnIn>>
Arg == IF fnOut = <<>> THEN fnIn ELSE fnOut[Len(fnOut)].state
On_f_info ==
    /\ Called("f_info", morphism_2_syndrome_encoding(Arg, Uniform(rng)))
    /\ rng' = Advance(rng)
On_f_dyn == Called("f_dyn", morphism_3_arnold_cat(Arg)) /\ UNCHANGED rng
On_f_info_inv == Called("f_info_inv", f_info_inv(Arg)) /\ UNCHANGED rng
On_f_dyn_inv == Called("f_dyn_inv", f_dyn_inv(Arg)) /\ UNCHANGED rng
NextInverse == On_f_info \/ On_f_dyn \/ On_f_info_inv \/ On_f_dyn_inv
SpecInverse ==
    /\ cur = initial_state /\ PRG_SEED = PRG_SEED_INIT /\ path = <<initial_state>>
    /\ calls = 0 /\ lastRun = [seed \in SweepSeeds |-> [n |-> 0, stages |-> None]]
    /\ heap = Store(initial_state) /\ refs = <<NewObjects(0)>> /\ held = <<initial_state>>
    /\ rng \in {Seeded(seed) : seed \in SweepSeeds}
    /\ fnIn \in InverseInputs /\ fnOut = <<>>
    /\ [][NextInverse]_vars

\* central_void_score called on an empty cloud or on a cloud whose points
\* are all the same point
DegenerateClouds ==
    {<<>>} \cup {[r \in {k * (MILLI \div 10)} |-> n] : k \in 0..10, n \in 1..MaxPoints}
VoidParams == {0, A_PARAM \div 2, A_PARAM}
Call_central_void_score ==
    /\ fnOut = None
    /\ fnOut' = central_void_score(fnIn.points, fnIn.a)
    /\ UNCHANGED <<program, fnIn>>
SpecVoid ==
    /\ InitCall({[points |-> p, a |-> a] : p \in DegenerateClouds, a \in VoidParams})
    /\ [][Call_central_void_score]_vars

\* demonstrate_impossibility: path = [], then one path.append per step. The
\* generator may have been seeded and drawn from by the caller before.
DemoStep(k, state) ==
    /\ Len(fnOut) = k
    /\ fnOut' = Append(fnOut, state)
    /\ UNCHANGED <<cur, PRG_SEED, path, calls, lastRun, heap, refs, held, fnIn>>
Demo_X_0 == DemoStep(0, initial_state) /\ UNCHANGED rng
Demo_X_1 ==
    /\ DemoStep(1, morphism_1_circuit_compilation(fnOut[1], PRG_SEED))
    /\ UNCHANGED rng
Demo_X_2 ==
    /\ DemoStep(2, morphism_2_syndrome_encoding(fnOut[2], Uniform(rng)))
    /\ rng' = Advance(rng)
Demo_X_3 == DemoStep(3, morphism_3_arnold_cat(fnOut[3])) /\ UNCHANGED rng
\* X_4 = SystemState(X_3.C.copy(), X_3.Q.copy(), X_3.morphisms_applied.copy())
\* X_4._points = points_annulus
Demo_X_4 ==
    /\ DemoStep(4, [C |-> fnOut[4].C, Q |-> fnOut[4].Q,
                    morphisms_applied |-> fnOut[4].morphisms_applied,
                    points |-> T_a(bits_to_points(fnOut[4].C, N_POINTS_GEOM), A_PARAM)])
    /\ UNCHANGED rng
Demo_X_0_return == DemoStep(5, phi_closing_isomorphism(fnOut[5])) /\ UNCHANGED rng
demonstrate_impossibility ==
    Demo_X_0 \/ Demo_X_1 \/ Demo_X_2 \/ Demo_X_3 \/ Demo_X_4 \/ Demo_X_0_return
SpecDemo ==
    /\ cur = initial_state /\ PRG_SEED = PRG_SEED_INIT /\ path = <<initial_state>>
    /\ calls = 0 /\ lastRun = [seed \in SweepSeeds |-> [n |-> 0, stages |-> None]]
    /\ heap = Store(initial_state) /\ refs = <<NewObjects(0)>> /\ held = <<initial_state>>
    /\ rng \in [seed : SweepSeeds, pos : 0..(Len(LEGACY_DRAWS[RANDOM_SEED]) - 1)]
    /\ fnIn = None /\ fnOut = <<>>
    /\ [][demonstrate_impossibility]_vars

\* T_a called on a cloud of the closed unit disk, for a in (0, 1): clouds
\* of one radius (a multiple of 0.01) and clouds of two radii
TaClouds ==
    {[r \in {k * (MILLI \div 100)} |-> n] : k \in 0..100, n \in 1..MaxPoints}
      \cup {[r \in {r1, r2} |-> 1] : r1 \in {k * (MILLI \div 4) : k \in 0..4},
                                    r2 \in {k * (MILLI \div 4) : k \in 0..4}}
TaParams == {k * (MILLI \div 20) : k \in 1..19} \cup {A_PARAM}
Call_T_a ==
    /\ fnOut = None
    /\ fnOut' = T_a(fnIn.points, fnIn.a)
    /\ UNCHANGED <<program, fnIn>>
SpecTa ==
    /\ InitCall({[points |-> p, a |-> a] : p \in TaClouds, a \in TaParams})
    /\ [][Call_T_a]_vars

\* f_geom_inv called on a state that carries the T_a image of a cloud of
\* the unit disk, the cloud attached as f_geom attaches it
GeomInvInputs ==
    [points : TaClouds,
     state : {initial_state, morphism_1_circuit_compilation(initial_state, PRG_SEED_INIT)}]
Attach_T_a ==
    /\ fnOut = <<>>
    /\ fnOut' = <<[C |-> fnIn.state.C, Q |-> fnIn.state.Q,
                   morphisms_applied |-> fnIn.state.morphisms_applied \cup {"f_geom"},
                   points |-> T_a(fnIn.points, A_PARAM)]>>
    /\ UNCHANGED <<program, fnIn>>
Call_f_geom_inv_on ==
    /\ Len(fnOut) = 1
    /\ fnOut' = Append(fnOut, f_geom_inv(fnOut[1]))
    /\ UNCHANGED <<program, fnIn>>
NextGeomInv == Attach_T_a \/ Call_f_geom_inv_on
SpecGeomInv ==
    /\ cur = initial_state /\ PRG_SEED = PRG_SEED_INIT /\ path = <<initial_state>>
    /\ calls = 0 /\ lastRun = [seed \in SweepSeeds |-> [n |-> 0, stages |-> None]]
    /\ heap = Store(initial_state) /\ refs = <<NewObjects(0)>> /\ held = <<initial_state>>
    /\ rng = Seeded(RANDOM_SEED)
    /\ fnIn \in GeomInvInputs /\ fnOut = <<>>
    /\ [][NextGeomInv]_vars

\* f_alg_inv called on a state of any quantum component, and phi called on
\* a state of any classical component and labels, with or without a cloud,
\* whose quantum component has been through the kicked evolution
AlgInvInputs ==
    {SystemState(c, q, {"f_alg"}) : c \in {ZeroBits, prg_expand(PRG_SEED_INIT, N_BITS).output},
                                   q \in MeasureRhos}
PhiInputs ==
    {[C |-> c, Q |-> kicked_ising_evolution(q, N_KICKS), morphisms_applied |-> l, points |-> p] :
        c \in Bits8,
        q \in {measure_qubit(GHZ_STATE, 0, N_QUBITS, 0).rho_post, Outer(<<>>, BasisVec(1))},
        l \in {{}, {"f_alg", "f_info", "f_dyn", "f_geom"}},
        p \in {None, T_a(bits_to_points(ZeroBits, N_POINTS_GEOM), A_PARAM)}}
Call_f_alg_inv_on ==
    /\ fnOut = None
    /\ fnIn \in AlgInvInputs
    /\ fnOut' = [call |-> "f_alg_inv", state |-> f_alg_inv(fnIn)]
    /\ UNCHANGED <<program, fnIn>>
Call_phi_on ==
    /\ fnOut = None
    /\ fnIn \in PhiInputs
    /\ fnOut' = [call |-> "phi", state |-> phi_closing_isomorphism(fnIn)]
    /\ UNCHANGED <<program, fnIn>>
NextClosing == Call_f_alg_inv_on \/ Call_phi_on
SpecClosing == InitCall(AlgInvInputs \cup PhiInputs) /\ [][NextClosing]_vars

\* ================================================================ claims
\* the stages of the cycle once the calls have reached them
X0 == path[1]
X1 == path[2]
X2 == path[3]
X3 == path[4]
X4 == path[5]
X0_back == path[6]

delta_alg == NSub(compute_C_alg(X1), compute_C_alg(X0))
delta_info == NSub(compute_C_info(X2), compute_C_info(X1))
delta_dyn == NSub(compute_C_dyn(X3), compute_C_dyn(X2))
delta_geom == NSub(compute_C_geom(X4, A_PARAM), compute_C_geom(X3, A_PARAM))

\* q * Tr(rho sigma) >= p, for two matrices under the same word
OverlapAtLeast(rho, sigma, p, q) ==
    /\ rho.U = sigma.U
    /\ q * Trace(MatMul(rho.M, sigma.M)) >= p * rho.den * sigma.den
TraceOne(rho) == Trace(rho.M) = rho.den /\ IsUnitaryWord(rho.U)
IsValidDensity(rho) ==
    /\ IsHermitian(rho.M)
    /\ TraceOne(rho)
    /\ Supported(rho.M)
    /\ \A i \in Idx : eigh(rho.M)[i].val >= 0

\* C1: after f_alg, f_info, f_dyn, f_geom and phi from the origin, the
\* classical bits are the origin's, the quantum component has trace 1, the
\* origin's purity (to 1e-4) and overlap >= 0.9 with |000><000|; the lowest
\* and the highest draw of f_info lead to the same state after f_info, so
\* this covers every outcome of the measurement.
C1_RoundTrip ==
    Len(path) = 6 =>
        /\ \A u \in {0, U_RES - 1} : morphism_2_syndrome_encoding(X1, u) = X2
        /\ X0_back.C = X0.C
        /\ TraceOne(X0_back.Q)
        /\ DefLt(NSub(Purity(X0_back.Q), Purity(X0.Q)), 1, SCALE)
        /\ DefGt(NSub(Purity(X0_back.Q), Purity(X0.Q)), -1, SCALE)
        /\ OverlapAtLeast(X0_back.Q, X0.Q, 9, 10)
C1_Witness ==
    /\ Len(path) = 6
    /\ X4.points # None
    /\ X2.Q.den > 1
    /\ cur = X0_back

\* C2: f_alg raises C_alg by more than 0.05 from the origin.
C2_AlgIncrease == Len(path) >= 2 => DefGt(delta_alg, 5, 100)
C2_Witness == Len(path) = 2 /\ cur = X1 /\ cur.morphisms_applied = {"f_alg"}

\* C3: f_info raises C_info by more than 0.05 on f_alg(origin), for the
\* outcome the draw gives.
C3_InfoIncrease == Len(path) >= 3 => DefGt(delta_info, 5, 100)
C3_Witness == Len(path) = 3 /\ cur = X2 /\ cur.C[0] = 0 /\ cur.Q.den > 1

\* C4: f_dyn raises C_dyn by more than 0.01 on f_info(f_alg(origin)).
C4_DynIncrease == Len(path) >= 4 => DefGt(delta_dyn, 1, 100)
C4_Witness == Len(path) = 4 /\ cur = X3 /\ Len(cur.Q.U) = 2 * N_KICKS

\* C5: f_geom raises C_geom by more than 0.1 on the state after f_dyn, and
\* the four increases of the cycle sum to more than 0.5.
C5_GeomIncrease ==
    Len(path) >= 5 =>
        /\ DefGt(delta_geom, 1, 10)
        /\ DefGt(NAdd(NAdd(delta_alg, delta_info), NAdd(delta_dyn, delta_geom)), 5, 10)
C5_Witness == Len(path) = 5 /\ cur = X4 /\ CloudSize(cur.points) = N_POINTS_GEOM

\* C6: compute_C_dyn gives the same value under every label set.
C6_TagIndependence ==
    \A S \in SUBSET Labels :
        compute_C_dyn([cur EXCEPT !.morphisms_applied = S])
            = compute_C_dyn([cur EXCEPT !.morphisms_applied = {}])
C6_Witness ==
    /\ "f_dyn" \in cur.morphisms_applied
    /\ cur.Q.U # <<>>
    /\ cur.Q.den > 1
    /\ DefGt(compute_C_dyn(cur), 1, 2)

\* C7: every call maps a valid density matrix (Hermitian, trace 1, no
\* negative eigenvalue) to a valid density matrix.
C7_ValidityPreserved == [][IsValidDensity(cur.Q) => IsValidDensity(cur'.Q)]_vars
C7_Witness ==
    /\ IsValidDensity(cur.Q)
    /\ cur.Q.den = DEPOL_DEN * DIM_HILBERT
    /\ cur.morphisms_applied = {"f_alg", "f_info"}

\* C8: each pillar value of a reachable state lies in [0, 1].
InUnitRange(v) == DefGe(v, 0, 1) /\ DefLe(v, 1, 1)
C8_PillarRange ==
    /\ InUnitRange(compute_C_alg(cur))
    /\ InUnitRange(compute_C_info(cur))
    /\ InUnitRange(compute_C_dyn(cur))
    /\ InUnitRange(compute_C_geom(cur, A_PARAM))

\* C9: a run of the forward cycle repeats the stages X1..X4 of the earlier
\* run with the same seed: the same bits and the same density matrices.
SameStages(a, b) ==
    \A k \in 1..4 : a[k].C = b[k].C /\ a[k].Q = b[k].Q
C9_Determinism ==
    [][\A seed \in SweepSeeds :
          (lastRun[seed].n > 0 /\ lastRun'[seed].n > lastRun[seed].n)
              => SameStages(lastRun'[seed].stages, lastRun[seed].stages)]_vars
C9_Witness ==
    \E seed \in SweepSeeds :
        /\ lastRun[seed].n = 2
        /\ rng.seed # seed
        /\ lastRun[seed].stages[2].Q.den > 1

\* C10: a forward morphism adds its own label and nothing else, an inverse
\* removes its own label and nothing else.
LabelLaw ==
    /\ Call_f_alg => cur'.morphisms_applied = cur.morphisms_applied \cup {"f_alg"}
    /\ Call_f_info => cur'.morphisms_applied = cur.morphisms_applied \cup {"f_info"}
    /\ Call_f_dyn => cur'.morphisms_applied = cur.morphisms_applied \cup {"f_dyn"}
    /\ Call_f_geom => cur'.morphisms_applied = cur.morphisms_applied \cup {"f_geom"}
    /\ Call_f_geom_inv => cur'.morphisms_applied = cur.morphisms_applied \ {"f_geom"}
    /\ Call_f_dyn_inv => cur'.morphisms_applied = cur.morphisms_applied \ {"f_dyn"}
    /\ Call_f_info_inv => cur'.morphisms_applied = cur.morphisms_applied \ {"f_info"}
    /\ Call_f_alg_inv => cur'.morphisms_applied = cur.morphisms_applied \ {"f_alg"}
C10_ProvenanceLabels == [][LabelLaw]_vars

\* C11: a call leaves the state it was given as it was, and the state it
\* returns has no object in common with it: every state the caller still
\* holds reads as it did when it was returned, and no two of them share an
\* array, a label set or a cloud.
C11_NoMutation ==
    \A k \in 1..Len(refs) :
        /\ Deref(heap, refs[k]) = held[k]
        /\ \A j \in 1..(k - 1) : \A c \in Components : refs[j][c] # refs[k][c]
C11_Witness ==
    /\ Len(held) = Len(CYCLE) + 1
    /\ held = path
    /\ held[2].C # held[3].C
    /\ Deref(heap, refs[Len(refs)]) = cur

\* C12: arnold_cat_map_bits sends no other 8-bit vector to the output it
\* gives for its argument (it is one-to-one on the 256 vectors).
C12_CatMapInjective ==
    fnOut # None =>
        \A bits \in Bits8 : bits # fnIn => arnold_cat_map_bits(bits) # fnOut

\* C13: the quantum component f_alg prepares, prepare_ghz_state(3), is the
\* projector on (|000> + |111>)/sqrt(2): entries 1/2 on the rows and columns
\* 0 and 7 and 0 elsewhere.
IsGhzProjector(rho) ==
    /\ rho.U = <<>>
    /\ \A i \in Idx : \A j \in Idx :
          2 * rho.M[i][j] = IF i \in {0, DIM_HILBERT - 1} /\ j \in {0, DIM_HILBERT - 1}
                            THEN rho.den ELSE 0
C13_GhzPrepared ==
    Len(path) >= 2 => X1.Q = prepare_ghz_state(N_QUBITS) /\ IsGhzProjector(X1.Q)

\* C14: a morphism given a state whose classical component is not N_BITS
\* long or whose quantum component is not 8x8 raises DimensionMismatch and
\* returns no state.
C14_DimensionChecked ==
    (fnOut # None /\ fnIn \in WrongShape) =>
        fnOut.raised = "DimensionMismatch" /\ fnOut.returned = None

\* C15: on an empty cloud and on a cloud of identical points
\* central_void_score returns a number between 0 and 1, and 0 when the
\* expected fraction (alpha a)^2 is 0.
C15_DegenerateCloudScore ==
    (fnOut # None /\ fnIn \in [points : DegenerateClouds, a : VoidParams]) =>
        /\ IsNumber(fnOut)
        /\ DefGe(fnOut, 0, 1) /\ DefLe(fnOut, 1, 1)
        /\ fnIn.a = 0 => fnOut = NZero

\* C16: demonstrate_impossibility records X0, X1, X2, X3, X4, X0' in this
\* order, each the result of its morphism on the state recorded before it;
\* X4 is morphism_4_disk_to_annulus(X3) in bits, matrix, cloud and labels.
C16_CycleRecorded ==
    /\ Len(fnOut) >= 1 => fnOut[1] = initial_state
    /\ Len(fnOut) >= 2 => fnOut[2] = morphism_1_circuit_compilation(fnOut[1], PRG_SEED)
    /\ Len(fnOut) >= 3 => \E u \in {0, U_RES - 1} :
                              fnOut[3] = morphism_2_syndrome_encoding(fnOut[2], u)
    /\ Len(fnOut) >= 4 => fnOut[4] = morphism_3_arnold_cat(fnOut[3])
    /\ Len(fnOut) >= 5 => fnOut[5] = morphism_4_disk_to_annulus(fnOut[4], N_POINTS_GEOM)
    /\ Len(fnOut) >= 6 => fnOut[6] = phi_closing_isomorphism(fnOut[5])
    /\ Len(fnOut) <= Len(CYCLE) + 1

TaSquare(r, a) == a * a * 10000 + (10000 - a * a) * r * r

\* C18: T_a sends a point of radius r of the closed unit disk to radius r'
\* with a <= r' <= 1, r' = a exactly when r = 0, r' = 1 exactly when r = 1,
\* r' strictly increasing in r; the mapped cloud has as many points as the
\* cloud, none within alpha a, and a central void score above 0.9.
C18_AnnulusRange ==
    fnOut # None =>
        LET a == fnIn.a
            cr(r) == r \div (MILLI \div 100)
        IN /\ \A r \in DOMAIN fnIn.points :
                 LET sq == TaSquare(cr(r), cr(a))
                 IN /\ TaSquare(0, cr(a)) <= sq /\ sq <= TaSquare(100, 100)
                    /\ sq = TaSquare(0, cr(a)) <=> r = 0
                    /\ sq = TaSquare(100, 100) <=> r = MILLI
                    /\ \A k \in 0..100 : k > cr(r) => TaSquare(k, cr(a)) > sq
                    /\ TaRadius(r, a) = SqrtFloor(sq) \div (MILLI \div 100)
                    /\ TaRadius(r, a) \in DOMAIN fnOut
           /\ \A r2 \in DOMAIN fnOut :
                 a <= r2 /\ r2 <= MILLI /\ ALPHA_DEN * r2 > ALPHA_NUM * a
           /\ SumSet(fnOut, DOMAIN fnOut) = SumSet(fnIn.points, DOMAIN fnIn.points)
           /\ CountWithin(fnOut, (ALPHA_NUM * a) \div ALPHA_DEN) = 0
           /\ DefGt(central_void_score(fnOut, a), 9, 10)
C18_Witness ==
    /\ fnOut # None
    /\ fnIn.a = A_PARAM
    /\ DOMAIN fnIn.points = {0, MILLI}
    /\ fnOut = [r \in {A_PARAM, MILLI} |-> 1]

\* the call just made built its result with the SystemState constructor
ConstructorCall ==
    \/ Call_f_alg
    \/ Call_f_info
    \/ Call_f_dyn
    \/ Call_f_dyn_inv
    \/ Call_f_info_inv
    \/ Call_f_alg_inv
    \/ Call_phi

\* C19: a state reached from initial_state() carries a point cloud only if
\* f_geom was applied earlier: the origin has none, a cloud appears only in
\* the result of f_geom and is kept only by f_geom_inv; the results of
\* f_alg, f_info, f_dyn, f_dyn_inv, f_info_inv, f_alg_inv and phi carry none
\* whatever their input carried, and compute_C_geom on a state without a
\* cloud, the result of phi among them, is the score of the re-embedded
\* classical bits.
C19_CloudLifecycle ==
    /\ cur.points = None
    /\ [][IF cur'.points # None
          THEN /\ Call_f_geom \/ (Call_f_geom_inv /\ cur.points # None)
               /\ ~ConstructorCall
          ELSE compute_C_geom(cur', A_PARAM) =
                   compute_C_geom([cur' EXCEPT !.points = bits_to_points(cur'.C, N_POINTS_PILLAR)],
                                  A_PARAM)]_vars
\* f_dyn_inv has returned a state without a cloud from a state that had one
C19_Witness ==
    /\ Len(held) >= 2
    /\ held[Len(held) - 1].points # None
    /\ cur.points = None
    /\ "f_geom" \in cur.morphisms_applied
    /\ "f_dyn" \notin cur.morphisms_applied

\* C20: in f_info applied to X1 = f_alg(origin) the Born probabilities of
\* qubit 0 are p0 = p1 = 1/2; each outcome is returned for some draw, and
\* bit 0 of X2's classical component is 0 for some draw and 1 for another.
C20_BornSampling ==
    Len(path) >= 3 =>
        LET p_0 == Trace(MatMul(MatMul(PROJECTOR[0][0], X1.Q.M), PROJECTOR[0][0]))
            p_1 == Trace(MatMul(MatMul(PROJECTOR[0][1], X1.Q.M), PROJECTOR[0][1]))
        IN /\ 2 * p_0 = X1.Q.den
           /\ 2 * p_1 = X1.Q.den
           /\ \A outcome \in 0..1 : \E u \in {0, U_RES - 1} :
                 /\ measure_qubit(X1.Q, 0, N_QUBITS, u).outcome = outcome
                 /\ morphism_2_syndrome_encoding(X1, u).C[0] = outcome

\* the draw the generator handed out last
LastDraw == LEGACY_DRAWS[rng.seed][rng.pos]
Xor(a, b) == IF a = b THEN 0 ELSE 1

\* C21: for every 8-bit C and sampled outcome o, the classical output C' of
\* f_info has C'[0] = o, C'[2i] = C[2i] XOR parity(C[2i], C[2i+1]) for the
\* blocks i = 1..3, and every odd-index bit as it was in C.
C21_SyndromeEncoding ==
    fnOut # None =>
        LET o == measure_qubit(fnIn.Q, 0, N_QUBITS, LastDraw).outcome
        IN /\ o \in {0, 1}
           /\ fnOut.C[0] = o
           /\ \A i \in 1..(N_BITS \div 2 - 1) :
                 fnOut.C[2 * i] = Xor(fnIn.C[2 * i], Xor(fnIn.C[2 * i], fnIn.C[2 * i + 1]))
           /\ \A i \in 0..(N_BITS \div 2 - 1) : fnOut.C[2 * i + 1] = fnIn.C[2 * i + 1]
\* outcome 1 written over a bit 0 that was 0, and a block of odd parity
C21_Witness ==
    /\ fnOut # None
    /\ fnIn.C[0] = 0 /\ fnIn.C[1] = 1 /\ fnOut.C[0] = 1
    /\ fnIn.C[2] = 0 /\ fnIn.C[3] = 1 /\ fnOut.C[2] = 1

C23_MaximalLfsr ==
    Len(fnOut.output) = N_BITS =>
        /\ \A s \in Seeds4 : \A t \in Seeds4 : LfsrStep(s) = LfsrStep(t) => s = t
        /\ (\E i \in 0..3 : fnIn[i] = 1) =>
              /\ \A k \in 1..(Pow(2, 4) - 2) : LfsrRun(fnIn, k) # fnIn
              /\ LfsrRun(fnIn, Pow(2, 4) - 1) = fnIn
        /\ \A i \in 1..Len(fnOut.output) :
              /\ fnOut.output[i] = prg_expand(fnIn, N_BITS).output[i - 1]
              /\ i <= 4 => fnOut.output[i] = fnIn[i - 1]

\* the calls made so far are the forward morphism and then its inverse
RoundTrip(name) ==
    /\ Len(fnOut) = 2
    /\ fnOut[1].call = name
    /\ fnOut[2].call = INVERSE_OF[name]

\* C24: for every 8-bit C, the classical component of f_dyn_inv(f_dyn(s))
\* is C, where s is a state with classical component C.
C24_DynInverse == RoundTrip("f_dyn") => fnOut[2].state.C = fnIn.C

\* C25: for every 8-bit C and outcome o, the classical component of
\* f_info_inv(f_info(s)) agrees with C on bits 1..7 and has bit 0 reset to 0.
C25_InfoInverse ==
    RoundTrip("f_info") =>
        /\ fnOut[2].state.C[0] = 0
        /\ \A i \in 1..(N_BITS - 1) : fnOut[2].state.C[i] = fnIn.C[i]

\* C26: f_geom_inv sends the T_a image of a cloud (a = 0.68) back to the
\* cloud: the radius it returns for r' = T_a(r) is the r with T_a(r) = r'
\* (radii are kept to 1/1000, so the image of the returned radius is r' to
\* two units), within [0, 1] and with as many points; the classical bits
\* and the quantum matrix are those of the input.
C26_GeomInverse ==
    Len(fnOut) = 2 =>
        LET image == fnOut[1].points
            back == fnOut[2].points
        IN /\ back # None
           /\ \A r2 \in DOMAIN back :
                 /\ 0 <= r2 /\ r2 <= MILLI
                 /\ \E r1 \in DOMAIN image : Abs(TaRadius(r2, A_PARAM) - r1) <= 2
           /\ \A r1 \in DOMAIN image :
                 \E r2 \in DOMAIN back : Abs(TaRadius(r2, A_PARAM) - r1) <= 2
           /\ CloudSize(back) = CloudSize(fnIn.points)
           /\ fnOut[2].C = fnOut[1].C
           /\ fnOut[2].Q = fnOut[1].Q

\* C27: the quantum output of f_alg_inv is |p><p| with p = H CNOT(0->1)
\* CNOT(0->2) v for the dominant eigenvector v of the input's quantum
\* component (H the Hadamard of the preparation); on the quantum component
\* f_alg prepares it is |000><000|.
C27_FullAdjoint ==
    (fnOut # None /\ fnIn \in AlgInvInputs) =>
        LET v == Dominant(fnIn.Q)
            w == MatVec(cnot_gate(N_QUBITS, 0, 1), MatVec(cnot_gate(N_QUBITS, 0, 2), v.n))
        IN /\ fnOut.state.Q = Outer(<<>>, ApplyH([n |-> w, D |-> v.D]))
           /\ fnIn.Q = prepare_ghz_state(N_QUBITS) => fnOut.state.Q = initial_state.Q

\* C28: for every input state, whatever its classical bits, labels and
\* cloud, phi returns the all-zero classical component and no label.
C28_PhiResetsClassical ==
    (fnOut # None /\ fnIn \in PhiInputs) =>
        /\ fnOut.state.C = ZeroBits
        /\ fnOut.state.morphisms_applied = {}
\* phi has returned from a state with set bits, labels and a cloud
C28_Witness ==
    /\ fnOut # None
    /\ fnIn \in PhiInputs
    /\ fnIn.C = [i \in BitIdx |-> 1]
    /\ fnIn.morphisms_applied # {}
    /\ fnIn.points # None
    /\ fnOut.call = "phi"

\* the input with one bit flipped
Flipped(state, k) == [state EXCEPT !.C[k] = 1 - @]

C30_OnlyInfoDraws ==
    /\ rng = Seeded(RANDOM_SEED)
    /\ [][IF rng' # rng
          THEN Call_f_info /\ rng'.seed = rng.seed /\ rng'.pos = rng.pos + 1
          ELSE ~Call_f_info]_vars
\* f_info has taken its draw on X1, where outcome 1 has probability 0
C30_Witness ==
    /\ Len(path) = 3
    /\ cur = X2
    /\ rng.pos = 1
    /\ Trace(MatMul(MatMul(PROJECTOR[0][1], X1.Q.M), PROJECTOR[0][1])) = 0

====
